---- MODULE Spec2Model ----
(***************************************************************************)
(* The CNL-to-MCP scaffold compiler of turtle-cli/cnl_to_mcp_generator.ts: *)
(* parseCNLFile (specification text -> MCPServerConfig) and the generators *)
(* that write package.json, src/index.ts, src/tools/<tool>.ts and          *)
(* tsconfig.json, driven by the command-line interface.                    *)
(*                                                                         *)
(* A specification text is a sequence of lexical items.  Each item is the  *)
(* piece of text one of the parser's regular expressions can match: a tool *)
(* header, a section label, a list line, a labelled quoted string.  The    *)
(* parser's regular expressions are translated to searches over that       *)
(* sequence (first match, lazy match up to the first terminator).          *)
(***************************************************************************)
EXTENDS Naturals, Sequences, FiniteSets, TLC

VARIABLES text, pc, config, dirs, fs, toolIdx, fsBefore, dirsBefore, command,
          toolCall, result, prevGen, run, stdout, error, report, written, order

vars == <<text, pc, config, dirs, fs, toolIdx, fsBefore, dirsBefore, command,
          toolCall, result, prevGen, run, stdout, error, report, written,
          order>>

(***************************************************************************)
(* Bounds of the model.                                                    *)
(***************************************************************************)
\* longest specification text, in lexical items, the parser is run on
MaxLen == 4
\* most parameters and most return fields of a tool with detailed lists
MaxParams == 2
MaxReturns == 1
\* most tools of a model handed to the generators
MaxTools == 2
\* most invocations of the command-line interface on one output directory
MaxRuns == 2

(***************************************************************************)
(* Lexical items of a specification text.                                  *)
(*   k : the label or shape the regular expressions look for               *)
(*   n : the \w+ name (tool name, parameter name, return-field name)       *)
(*   t : the \w+ kind token of a list line                                 *)
(*   f : the \w+ flag inside the parentheses of a parameter line           *)
(*   d : the quoted text                                                   *)
(***************************************************************************)
Tok(k, n, t, f, d) == [k |-> k, n |-> n, t |-> t, f |-> f, d |-> d]

\* "TOOL_SPECIFICATION <n>:"
ToolHdr(n) == Tok("TOOL_SPECIFICATION", n, "", "", "")
\* "MCP_SERVER_CONFIGURATION:"
ConfigHdr == Tok("MCP_SERVER_CONFIGURATION:", "", "", "", "")
\* "GENERATION_RULES"
GenRules == Tok("GENERATION_RULES", "", "", "", "")
\* DESCRIPTION: "<d>"
DescItem(d) == Tok("DESCRIPTION:", "", "", "", d)
\* "PARAMETERS:"
ParamsLbl == Tok("PARAMETERS:", "", "", "", "")
\* "RETURNS:"
ReturnsLbl == Tok("RETURNS:", "", "", "", "")
\* IMPLEMENTATION_PATTERN: "<d>"
ImplItem(d) == Tok("IMPLEMENTATION_PATTERN:", "", "", "", d)
\* - <n>: <t> (<f>) "<d>"
ParamLine(n, t, f, d) == Tok("paramLine", n, t, f, d)
\* - <n>: <t> "<d>"
ReturnLine(n, t, d) == Tok("returnLine", n, t, "", d)
\* NAME: "<d>"   VERSION: "<d>"   TRANSPORT: "<d>"
NameItem(d) == Tok("NAME:", "", "", "", d)
VersionItem(d) == Tok("VERSION:", "", "", "", d)
TransportItem(d) == Tok("TRANSPORT:", "", "", "", d)

(***************************************************************************)
(* Helpers over sequences.                                                 *)
(***************************************************************************)
\* indices of s holding an item with label k
IdxOf(s, k) == {i \in DOMAIN s : s[i].k = k}

Min(S) == CHOOSE i \in S : \A j \in S : i <= j

(***************************************************************************)
(* The parser.                                                             *)
(***************************************************************************)
\* no MCPServerConfig: parseCNLFile has not returned
NoConfig == [none |-> TRUE]

\* JavaScript's null: no match of a pattern, no MCPToolCall
Null == [null |-> TRUE]

\* /PARAMETERS:(.*?)RETURNS:/s, then every /- (\w+): (\w+) \((\w+)\) "([^"]+)"/
parseParameters(toolContent) ==
    LET ps == IdxOf(toolContent, "PARAMETERS:")
    IN  IF ps = {} THEN <<>>
        ELSE LET p  == Min(ps)
                 rs == {r \in IdxOf(toolContent, "RETURNS:") : r > p}
             IN  IF rs = {} THEN <<>>
                 ELSE LET section == SubSeq(toolContent, p + 1, Min(rs) - 1)
                          paramLines == SelectSeq(section, LAMBDA l : l.k = "paramLine")
                      IN  [i \in DOMAIN paramLines |->
                             [name |-> paramLines[i].n,
                              type |-> paramLines[i].t,
                              required |-> (paramLines[i].f = "required"),
                              description |-> paramLines[i].d]]

\* /RETURNS:(.*?)IMPLEMENTATION_PATTERN:/s, then every /- (\w+): (\w+) "([^"]+)"/
parseReturns(toolContent) ==
    LET rs == IdxOf(toolContent, "RETURNS:")
    IN  IF rs = {} THEN <<>>
        ELSE LET r  == Min(rs)
                 ms == {m \in IdxOf(toolContent, "IMPLEMENTATION_PATTERN:") : m > r}
             IN  IF ms = {} THEN <<>>
                 ELSE LET section == SubSeq(toolContent, r + 1, Min(ms) - 1)
                          returnLines == SelectSeq(section, LAMBDA l : l.k = "returnLine")
                      IN  [i \in DOMAIN returnLines |->
                             [name |-> returnLines[i].n,
                              type |-> returnLines[i].t,
                              description |-> returnLines[i].d]]

\* content.match(/<label>\s*"([^"]+)"/): the quoted text of the first match,
\* or the default when nothing matches
QuotedAfter(content, label, default) ==
    LET is == IdxOf(content, label)
    IN  IF is = {} THEN default ELSE content[Min(is)].d

\* ToolContent with a lookahead that lacks TOOL_SPECIFICATION: the content runs
\* on into the blocks that follow
ToolContentPastHeaders(content, i) ==
    LET stops == {j \in IdxOf(content, "MCP_SERVER_CONFIGURATION:") : j > i}
        last  == IF stops = {} THEN Len(content) ELSE Min(stops) - 1
    IN  SubSeq(content, i + 1, last)

\* the (.*?) of a tool match: up to the next TOOL_SPECIFICATION,
\* MCP_SERVER_CONFIGURATION or the end of the text
ToolContent(content, i) ==
    LET stops == {j \in IdxOf(content, "TOOL_SPECIFICATION")
                         \cup IdxOf(content, "MCP_SERVER_CONFIGURATION:") : j > i}
        last  == IF stops = {} THEN Len(content) ELSE Min(stops) - 1
    IN  SubSeq(content, i + 1, last)

\* the body of the loop over toolMatches: one ToolSpec per match
ToolSpecOf(content, i) ==
    LET toolContent == ToolContent(content, i)
    IN  [name |-> content[i].n,
         description |-> QuotedAfter(toolContent, "DESCRIPTION:", ""),
         parameters |-> parseParameters(toolContent),
         returns |-> parseReturns(toolContent),
         implementationPattern |-> QuotedAfter(toolContent, "IMPLEMENTATION_PATTERN:", "")]

\* ToolMatches with match in place of matchAll: the first tool block only
ToolMatchesFirstOnly(content) ==
    LET hs == IdxOf(content, "TOOL_SPECIFICATION")
    IN  IF hs = {} THEN <<>> ELSE <<Min(hs)>>

\* the positions content.matchAll(/TOOL_SPECIFICATION\s+(\w+):.../gs) matches at,
\* in text order
ToolMatches(content) ==
    SelectSeq([i \in DOMAIN content |-> i],
              LAMBDA i : content[i].k = "TOOL_SPECIFICATION")

\* ConfigContent that falls back to the whole text when the block is missing
ConfigContentOrWholeText(content) ==
    LET cs == IdxOf(content, "MCP_SERVER_CONFIGURATION:")
    IN  IF cs = {} THEN content
        ELSE LET c     == Min(cs)
                 stops == {g \in IdxOf(content, "GENERATION_RULES") : g > c}
                 last  == IF stops = {} THEN Len(content) ELSE Min(stops) - 1
             IN  SubSeq(content, c + 1, last)

\* content.match(/MCP_SERVER_CONFIGURATION:(.*?)(?=GENERATION_RULES|$)/s),
\* the empty text when there is no match
ConfigContent(content) ==
    LET cs == IdxOf(content, "MCP_SERVER_CONFIGURATION:")
    IN  IF cs = {} THEN <<>>
        ELSE LET c     == Min(cs)
                 stops == {g \in IdxOf(content, "GENERATION_RULES") : g > c}
                 last  == IF stops = {} THEN Len(content) ELSE Min(stops) - 1
             IN  SubSeq(content, c + 1, last)

\* parseCNLFile that takes the three defaults together as soon as one of the
\* three fields is missing
parseCNLFileDefaultsTogether(content) ==
    LET toolMatches == ToolMatches(content)
        toolSpecs == [m \in DOMAIN toolMatches |-> ToolSpecOf(content, toolMatches[m])]
        configContent == ConfigContent(content)
        complete == \A label \in {"NAME:", "VERSION:", "TRANSPORT:"} :
                        IdxOf(configContent, label) # {}
        got == IF complete THEN configContent ELSE <<>>
    IN  [name |-> QuotedAfter(got, "NAME:", "generated-mcp-server"),
         version |-> QuotedAfter(got, "VERSION:", "0.1.0"),
         transport |-> QuotedAfter(got, "TRANSPORT:", "stdio"),
         capabilities |-> <<"tools", "resources">>,
         tools |-> toolSpecs]

\* the model parseCNLFile returns: the ToolSpecs of the tool matches and the
\* quoted NAME, VERSION and TRANSPORT of the configuration match
parseCNLFile(content) ==
    LET toolMatches == ToolMatches(content)
        toolSpecs == [m \in DOMAIN toolMatches |-> ToolSpecOf(content, toolMatches[m])]
        configContent == ConfigContent(content)
    IN  [name |-> QuotedAfter(configContent, "NAME:", "generated-mcp-server"),
         version |-> QuotedAfter(configContent, "VERSION:", "0.1.0"),
         transport |-> QuotedAfter(configContent, "TRANSPORT:", "stdio"),
         capabilities |-> <<"tools", "resources">>,
         tools |-> toolSpecs]

(***************************************************************************)
(* The file system: the directories that exist and the files with their    *)
(* content.  outputDir is "out".                                           *)
(***************************************************************************)
OutDir == "out"
SrcDir == "out/src"
ToolsDir == "out/src/tools"
PackageJsonPath == "out/package.json"
IndexPath == "out/src/index.ts"
TSConfigPath == "out/tsconfig.json"
\* ToolPath that names every stub after the module, not after its tool
ToolPathShared(n) == "out/src/tools/tool.ts"

\* path.join(toolsDir, `${tool.name}.ts`)
ToolPath(n) == "out/src/tools/" \o n \o ".ts"

\* fs.writeFileSync(path, data) that succeeds: creates or replaces the file
WriteFile(files, path, data) ==
    [p \in DOMAIN files \cup {path} |-> IF p = path THEN data ELSE files[p]]

(***************************************************************************)
(* The generated artifacts.  A file's content is the record of everything  *)
(* its template interpolates, next to the fixed text that decides a claim. *)
(***************************************************************************)
\* config.name.replace(/-/g, '_').toUpperCase(), for the server names of the model
ClassNameOf(name) ==
    CASE name = "generated-mcp-server" -> "GENERATED_MCP_SERVER"
      [] name = "echo-server" -> "ECHO_SERVER"
      [] OTHER -> name

\* tool.name.charAt(0).toUpperCase() + tool.name.slice(1), for the tool names of the model
Capitalize(name) ==
    CASE name = "echo_tool" -> "Echo_tool"
      [] name = "list_dir" -> "List_dir"
      [] name = "ping" -> "Ping"
      [] OTHER -> name

\* PackageJson with a field that records whether the directory was generated
\* into before, as a generation stamp would
PackageJsonStamped(cfg) ==
    [name |-> cfg.name,
     version |-> cfg.version,
     description |-> "MCP server generated from CNL specification",
     main |-> "dist/index.js",
     type |-> "module",
     scripts |-> [build |-> "tsc", start |-> "node dist/index.js", dev |-> "tsc --watch"],
     dependencies |-> {<<"@modelcontextprotocol/sdk", "^0.4.0">>},
     devDependencies |-> {<<"@types/node", "^18.0.0">>, <<"typescript", "^5.0.0">>},
     generated |-> IF PackageJsonPath \in DOMAIN fs THEN "again" ELSE "first"]

\* PackageJson whose start script follows the model's transport
PackageJsonByTransport(cfg) ==
    [name |-> cfg.name,
     version |-> cfg.version,
     description |-> "MCP server generated from CNL specification",
     main |-> "dist/index.js",
     type |-> "module",
     scripts |-> [build |-> "tsc",
                  start |-> "node dist/index.js --" \o cfg.transport,
                  dev |-> "tsc --watch"],
     dependencies |-> {<<"@modelcontextprotocol/sdk", "^0.4.0">>},
     devDependencies |-> {<<"@types/node", "^18.0.0">>, <<"typescript", "^5.0.0">>}]

\* JSON.stringify(packageJson, null, 2)
PackageJson(cfg) ==
    [name |-> cfg.name,
     version |-> cfg.version,
     description |-> "MCP server generated from CNL specification",
     main |-> "dist/index.js",
     type |-> "module",
     scripts |-> [build |-> "tsc", start |-> "node dist/index.js", dev |-> "tsc --watch"],
     dependencies |-> {<<"@modelcontextprotocol/sdk", "^0.4.0">>},
     devDependencies |-> {<<"@types/node", "^18.0.0">>, <<"typescript", "^5.0.0">>}]

\* RequiredNames without the filter: every parameter name
RequiredNamesUnfiltered(parameters) ==
    [i \in DOMAIN parameters |-> parameters[i].name]

\* tool.parameters.filter(p => p.required).map(p => `"${p.name}"`)
RequiredNames(parameters) ==
    LET required == SelectSeq(parameters, LAMBDA p : p.required)
    IN  [i \in DOMAIN required |-> required[i].name]

\* one element of the tools array the ListTools handler returns
ListToolsEntry(tool) ==
    [name |-> tool.name,
     description |-> tool.description,
     inputSchema |->
        [type |-> "object",
         properties |-> [i \in DOMAIN tool.parameters |->
                            [name |-> tool.parameters[i].name,
                             type |-> tool.parameters[i].type,
                             description |-> tool.parameters[i].description]],
         required |-> RequiredNames(tool.parameters)]]

\* CallToolCase whose label is the capitalised name the stub's interfaces use
CallToolCaseCapitalized(tool) == [label |-> Capitalize(tool.name), callee |-> tool.name]

\* one case of the CallTool handler's switch: case "<label>": return await <callee>(...)
CallToolCase(tool) == [label |-> tool.name, callee |-> tool.name]

\* one import line: import { <fn> } from './tools/<fn>.js'
ImportOf(tool) == [fn |-> tool.name, from |-> "./tools/" \o tool.name \o ".js"]

\* ServerTypeScript whose switch lists the cases last tool first
ServerTypeScriptCasesReversed(cfg) ==
    [imports |-> [i \in DOMAIN cfg.tools |-> ImportOf(cfg.tools[i])],
     className |-> ClassNameOf(cfg.name) \o "Server",
     serverInfo |-> [name |-> cfg.name, version |-> cfg.version],
     listTools |-> [i \in DOMAIN cfg.tools |-> ListToolsEntry(cfg.tools[i])],
     callTool |-> [i \in DOMAIN cfg.tools |->
                     CallToolCase(cfg.tools[Len(cfg.tools) + 1 - i])],
     transport |-> "StdioServerTransport",
     runLog |-> cfg.name \o " MCP server running on stdio"]

\* ServerTypeScript whose run() connects over the transport the model names
ServerTypeScriptByTransport(cfg) ==
    [imports |-> [i \in DOMAIN cfg.tools |-> ImportOf(cfg.tools[i])],
     className |-> ClassNameOf(cfg.name) \o "Server",
     serverInfo |-> [name |-> cfg.name, version |-> cfg.version],
     listTools |-> [i \in DOMAIN cfg.tools |-> ListToolsEntry(cfg.tools[i])],
     callTool |-> [i \in DOMAIN cfg.tools |-> CallToolCase(cfg.tools[i])],
     transport |-> IF cfg.transport = "stdio" THEN "StdioServerTransport"
                   ELSE "SSEServerTransport",
     runLog |-> cfg.name \o " MCP server running on " \o cfg.transport]

\* serverCode.trim()
ServerTypeScript(cfg) ==
    [imports |-> [i \in DOMAIN cfg.tools |-> ImportOf(cfg.tools[i])],
     className |-> ClassNameOf(cfg.name) \o "Server",
     serverInfo |-> [name |-> cfg.name, version |-> cfg.version],
     listTools |-> [i \in DOMAIN cfg.tools |-> ListToolsEntry(cfg.tools[i])],
     callTool |-> [i \in DOMAIN cfg.tools |-> CallToolCase(cfg.tools[i])],
     transport |-> "StdioServerTransport",
     runLog |-> cfg.name \o " MCP server running on stdio"]

\* Placeholder with the empty string for a string field
PlaceholderEmptyString(ret) ==
    CASE ret.type = "string"  -> "\"\""
      [] ret.type = "number"  -> "0"
      [] ret.type = "boolean" -> "false"
      [] ret.type = "array"   -> "[]"
      [] OTHER                -> "null"

\* the switch over ret.type that writes a return field's placeholder literal
Placeholder(ret) ==
    CASE ret.type = "string"  -> "\"placeholder_" \o ret.name \o "\""
      [] ret.type = "number"  -> "0"
      [] ret.type = "boolean" -> "false"
      [] ret.type = "array"   -> "[]"
      [] OTHER                -> "null"

\* toolCode.trim()
ToolCode(tool) ==
    [docComment |-> [name |-> tool.name, description |-> tool.description,
                     implementationPattern |-> tool.implementationPattern],
     argsInterface |->
        [name |-> Capitalize(tool.name) \o "Args",
         fields |-> [i \in DOMAIN tool.parameters |->
                        [name |-> tool.parameters[i].name,
                         optional |-> ~tool.parameters[i].required,
                         type |-> tool.parameters[i].type]]],
     resultInterface |->
        [name |-> Capitalize(tool.name) \o "Result",
         fields |-> [i \in DOMAIN tool.returns |->
                        [name |-> tool.returns[i].name, type |-> tool.returns[i].type]]],
     function |-> tool.name,
     todoComment |-> tool.implementationPattern,
     result |-> [i \in DOMAIN tool.returns |->
                    [name |-> tool.returns[i].name,
                     value |-> Placeholder(tool.returns[i])]]]

(***************************************************************************)
(* The stub as TypeScript reads it.  The template puts the implementation  *)
(* pattern into the doc comment and into the TODO line comment; the        *)
(* pattern is any text without a double quote, so it may hold line breaks  *)
(* and comment delimiters.  A pattern is read as a sequence of pieces:     *)
(* plain text, LineBreak, CommentEnd, CommentStart.                        *)
(***************************************************************************)
LineBreak == "\n"
CommentEnd == "*/"
CommentStart == "/*"

\* the pieces of the implementation patterns of the model
HintPieces(hint) ==
    CASE hint = "echo input\nprocess.exit(1)" ->
            <<"echo input", LineBreak, "process.exit(1)">>
      [] hint = "read */ process.exit(1) /* the directory" ->
            <<"read ", CommentEnd, " process.exit(1) ", CommentStart, " the directory">>
      [] hint = "" -> <<>>
      [] OTHER -> <<hint>>

\* the text pieces after position `from` that TypeScript reads as code, when
\* the text right after `from` is outside every comment: a piece is code
\* unless a block comment opened before it is still open
CodeAfter(pieces, from) ==
    LET delimiters(i) == {j \in (from + 1)..(i - 1) :
                             pieces[j] \in {CommentStart, CommentEnd}}
        isCode(i) == /\ i > from
                     /\ pieces[i] \notin {LineBreak, CommentStart, CommentEnd}
                     /\ \/ delimiters(i) = {}
                        \/ pieces[CHOOSE j \in delimiters(i) :
                                     \A m \in delimiters(i) : m <= j] = CommentEnd
    IN  SelectSeq([i \in DOMAIN pieces |-> IF isCode(i) THEN pieces[i] ELSE LineBreak],
                  LAMBDA piece : piece # LineBreak)

\* /** ... Implementation Pattern: ${tool.implementationPattern} */ : the
\* pieces of the pattern left outside the doc comment, which its first
\* CommentEnd closes
InDocComment(pieces) ==
    LET ends == {i \in DOMAIN pieces : pieces[i] = CommentEnd}
    IN  IF ends = {} THEN <<>> ELSE CodeAfter(pieces, Min(ends))

\* // TODO: Implement ${tool.implementationPattern} : the pieces of the
\* pattern left outside the line comment, which its first LineBreak ends
InLineComment(pieces) ==
    LET breaks == {i \in DOMAIN pieces : pieces[i] = LineBreak}
    IN  IF breaks = {} THEN <<>> ELSE CodeAfter(pieces, Min(breaks))

\* the statements of a stub that come from its tool's implementation pattern:
\* at module level after the doc comment, and in the function's try block
\* after the TODO comment
HintAsCode(stub) ==
    [moduleLevel |-> InDocComment(HintPieces(stub.docComment.implementationPattern)),
     inFunction |-> InLineComment(HintPieces(stub.todoComment))]

\* JSON.stringify(tsConfig, null, 2)
TSConfig ==
    [compilerOptions |->
        [target |-> "ES2022", module |-> "ESNext", moduleResolution |-> "Node",
         outDir |-> "./dist", rootDir |-> "./src", strict |-> TRUE,
         esModuleInterop |-> TRUE, skipLibCheck |-> TRUE,
         forceConsistentCasingInFileNames |-> TRUE, declaration |-> TRUE,
         declarationMap |-> TRUE, sourceMap |-> TRUE],
     include |-> <<"src/**/*">>,
     exclude |-> <<"node_modules", "dist">>]

(***************************************************************************)
(* What an invocation says and returns.                                    *)
(***************************************************************************)
\* one console.log line: its fixed text and what it interpolates
Line(l) == [line |-> l]

\* GenerateLog whose second line lists the files written
GenerateLogOfFiles(cfg) ==
    <<[line |-> "Generated MCP server", name |-> cfg.name, dir |-> OutDir],
      [line |-> "Tools:",
       names |-> [i \in DOMAIN cfg.tools |-> ToolPath(cfg.tools[i].name)]]>>

\* the two console.log lines that end generateMCPServer
GenerateLog(cfg) ==
    <<[line |-> "Generated MCP server", name |-> cfg.name, dir |-> OutDir],
      [line |-> "Tools:", names |-> [i \in DOMAIN cfg.tools |-> cfg.tools[i].name]]>>

\* the console.log lines of the command-line interface
ParsingLine == Line("Parsing CNL specification...")
GeneratingLine == Line("Generating MCP server...")
CompleteLines(cfg) ==
    <<Line("CNL to MCP generation complete!"), Line("Next steps:"),
      [line |-> "cd", dir |-> OutDir], Line("npm install"), Line("npm run build"),
      [line |-> "claude mcp add", name |-> cfg.name]>>

\* generateMCPServer(...): void -- the call has not returned, or it has
\* returned undefined
NotReturned == [pending |-> TRUE]
Undefined == [undefined |-> TRUE]

\* the error a throwing fs call raises: Node's system error with the failing
\* call and its code
NoError == [syscall |-> "", code |-> ""]
SystemError(syscall, code) == [syscall |-> syscall, code |-> code]

\* the codes a write or mkdir into an existing directory fails with
RefusedCodes == {"EACCES", "ENOSPC"}
\* the codes reading the specification file fails with
ReadCodes == {"ENOENT", "EACCES"}

(***************************************************************************)
(* The generated CallTool handler, run on a request for tool `name`: the   *)
(* first case whose label equals the name returns its callee's result, the *)
(* default throws Error(`Unknown tool: ${name}`).                          *)
(***************************************************************************)
CallTool(entry, name) ==
    LET hits == {i \in DOMAIN entry.callTool : entry.callTool[i].label = name}
    IN  IF hits = {}
        THEN [invoked |-> <<>>, error |-> "Unknown tool: " \o name]
        ELSE [invoked |-> <<entry.callTool[Min(hits)].callee>>, error |-> ""]

(***************************************************************************)
(* Inputs.                                                                 *)
(***************************************************************************)
\* all sequences over S of length at most n
BSeq(S, n) == UNION {[1..m -> S] : m \in 0..n}

\* the lexical items of tool blocks
ToolItems ==
    {ToolHdr("echo_tool"), ToolHdr("list_dir"), ConfigHdr,
     DescItem("Echo the input"), ImplItem("echo input as output"),
     ParamsLbl,
     ParamLine("message", "string", "required", "Text to echo"),
     ParamLine("count", "number", "optional", "Repeat count"),
     ParamLine("verbose", "boolean", "maybe", "Chatty output"),
     ReturnsLbl,
     ReturnLine("response", "string", "The echoed text"),
     ReturnLine("context", "object", "Call context")}

\* the lexical items of the server configuration block
ConfigItems ==
    {ToolHdr("echo_tool"), ConfigHdr, GenRules,
     NameItem("echo-server"), NameItem("other-server"),
     VersionItem("1.2.0"), TransportItem("http")}

\* the specification texts the parser is run on
Texts == BSeq(ToolItems, MaxLen) \cup BSeq(ConfigItems, MaxLen)

(***************************************************************************)
(* parseCNLFile, as a step of the command-line interface and as a call of  *)
(* the exported class.                                                     *)
(***************************************************************************)
ParseStep ==
    /\ pc = "parse"
    /\ config' = parseCNLFile(text)
    /\ stdout' = stdout \o <<ParsingLine, GeneratingLine>>
    /\ pc' = "mkdir"
    /\ UNCHANGED <<text, dirs, fs, toolIdx, fsBefore, dirsBefore, command,
                   toolCall, result, prevGen, run, order, error, report,
                   written>>

NoFiles == [p \in {} |-> TSConfig]

InitParse ==
    /\ text \in Texts
    /\ pc = "parse"
    /\ config = NoConfig
    /\ dirs = {}
    /\ fs = NoFiles
    /\ toolIdx = 1
    /\ fsBefore = NoFiles
    /\ dirsBefore = dirs
    /\ command = <<>>
    /\ toolCall = Null
    /\ result = NotReturned
    /\ prevGen = NoConfig
    /\ run = 1
    /\ stdout = <<>>
    /\ error = NoError
    /\ report = NotReturned
    /\ written = <<>>
    /\ order = <<>>

SpecParse == InitParse /\ [][ParseStep]_vars

(***************************************************************************)
(* The generators, in the order generateMCPServer and the command-line     *)
(* interface call them.  mkdirSync and writeFileSync either take effect or *)
(* throw; a throw ends the invocation (WriteFails).                        *)
(*   text     the content of the specification file                        *)
(*   pc       the statement the invocation is at                           *)
(*   config   the model parseCNLFile returned                              *)
(*   dirs, fs the directories and the files of the file system             *)
(*   toolIdx  the position of the loop over config.tools                   *)
(*   fsBefore the files when the current invocation started                *)
(*   dirsBefore the directories when the current invocation started        *)
(*   command  the command given to the command-to-call mapper              *)
(*   toolCall what parseCommand returned for it                            *)
(*   result   what processCommand returned for it                          *)
(*   prevGen  the model of the invocation before, if it ran to completion  *)
(*   run      the number of the current invocation                         *)
(*   stdout   the console.log lines of the current invocation              *)
(*   error    the error an fs call has thrown, NoError while none has      *)
(*   report   what generateMCPServer has returned to its caller            *)
(*   written  the paths the current invocation has written, in order       *)
(*   order    the generators a caller that calls them one by one has still *)
(*            to call, "done" last; empty when generateMCPServer and the   *)
(*            command-line interface call them in their own order          *)
(***************************************************************************)
\* the first statement of a generator
Entry(generator) ==
    CASE generator = "manifest" -> "package"
      [] generator = "entryPoint" -> "srcdir"
      [] generator = "stubs" -> "toolsdir"
      [] generator = "buildConfig" -> "tsconfig"
      [] OTHER -> "done"

\* the statement that runs when a generator returns: `next` in the order of
\* generateMCPServer and the command-line interface, else what the caller
\* calls next
Then(next) == IF order = <<>> THEN next ELSE Entry(Head(order))

\* what the caller has still to call after that
Rest == IF order = <<>> THEN <<>> ELSE Tail(order)

\* if (!fs.existsSync(outputDir)) fs.mkdirSync(outputDir, { recursive: true })
EnsureOutputDir ==
    /\ pc = "mkdir"
    /\ dirs' = dirs \cup {OutDir}
    /\ pc' = "package"
    /\ UNCHANGED <<text, config, fs, toolIdx, fsBefore, dirsBefore, command,
                   toolCall, result, prevGen, run, order, stdout, error,
                   report, written>>

\* generatePackageJson that empties the output directory before it writes the
\* manifest
generatePackageJsonIntoCleanDir ==
    /\ pc = "package"
    /\ OutDir \in dirs
    /\ fs' = WriteFile(NoFiles, PackageJsonPath, PackageJson(config))
    /\ written' = Append(written, PackageJsonPath)
    /\ pc' = Then("srcdir")
    /\ order' = Rest
    /\ UNCHANGED <<text, config, dirs, toolIdx, fsBefore, dirsBefore, command,
                   toolCall, result, prevGen, run, stdout, error, report>>

\* generatePackageJson that leaves a manifest it finds in place
generatePackageJsonKeepsExisting ==
    /\ pc = "package"
    /\ OutDir \in dirs
    /\ fs' = IF PackageJsonPath \in DOMAIN fs
             THEN fs
             ELSE WriteFile(fs, PackageJsonPath, PackageJson(config))
    /\ written' = Append(written, PackageJsonPath)
    /\ pc' = Then("srcdir")
    /\ order' = Rest
    /\ UNCHANGED <<text, config, dirs, toolIdx, fsBefore, dirsBefore, command,
                   toolCall, result, prevGen, run, stdout, error, report>>

\* generatePackageJson: fs.writeFileSync(path.join(outputDir, 'package.json'), ...)
generatePackageJson ==
    /\ pc = "package"
    /\ OutDir \in dirs
    /\ fs' = WriteFile(fs, PackageJsonPath, PackageJson(config))
    /\ written' = Append(written, PackageJsonPath)
    /\ pc' = Then("srcdir")
    /\ order' = Rest
    /\ UNCHANGED <<text, config, dirs, toolIdx, fsBefore, dirsBefore, command,
                   toolCall, result, prevGen, run, stdout, error, report>>

\* generateServerTypeScript: if (!fs.existsSync(srcDir)) fs.mkdirSync(srcDir, ...)
EnsureSrcDir ==
    /\ pc = "srcdir"
    /\ dirs' = dirs \cup {OutDir, SrcDir}
    /\ pc' = "index"
    /\ UNCHANGED <<text, config, fs, toolIdx, fsBefore, dirsBefore, command,
                   toolCall, result, prevGen, run, order, stdout, error,
                   report, written>>

\* generateServerTypeScript that first reads the manifest for the server's name
generateServerTypeScriptAfterManifest ==
    /\ pc = "index"
    /\ SrcDir \in dirs
    /\ PackageJsonPath \in DOMAIN fs
    /\ fs' = WriteFile(fs, IndexPath, ServerTypeScript(config))
    /\ written' = Append(written, IndexPath)
    /\ pc' = Then("toolsdir")
    /\ order' = Rest
    /\ UNCHANGED <<text, config, dirs, toolIdx, fsBefore, dirsBefore, command,
                   toolCall, result, prevGen, run, stdout, error, report>>

\* generateServerTypeScript: fs.writeFileSync(path.join(srcDir, 'index.ts'), ...)
generateServerTypeScript ==
    /\ pc = "index"
    /\ SrcDir \in dirs
    /\ fs' = WriteFile(fs, IndexPath, ServerTypeScript(config))
    /\ written' = Append(written, IndexPath)
    /\ pc' = Then("toolsdir")
    /\ order' = Rest
    /\ UNCHANGED <<text, config, dirs, toolIdx, fsBefore, dirsBefore, command,
                   toolCall, result, prevGen, run, stdout, error, report>>

\* EnsureToolsDir that enters the loop body whatever the number of tools, as a
\* do-while loop would
EnsureToolsDirEntersLoop ==
    /\ pc = "toolsdir"
    /\ dirs' = dirs \cup {OutDir, SrcDir, ToolsDir}
    /\ toolIdx' = 1
    /\ pc' = "tools"
    /\ UNCHANGED <<text, config, fs, fsBefore, dirsBefore, command, toolCall,
                   result, prevGen, run, order, stdout, error, report,
                   written>>

\* generateToolImplementations: if (!fs.existsSync(toolsDir)) fs.mkdirSync(toolsDir, ...)
EnsureToolsDir ==
    /\ pc = "toolsdir"
    /\ dirs' = dirs \cup {OutDir, SrcDir, ToolsDir}
    /\ toolIdx' = 1
    /\ IF Len(config.tools) = 0
       THEN /\ pc' = Then("tsconfig")
            /\ order' = Rest
            /\ stdout' = IF order = <<>> THEN stdout \o GenerateLog(config) ELSE stdout
            /\ report' = IF order = <<>> THEN Undefined ELSE report
       ELSE /\ pc' = "tools"
            /\ UNCHANGED <<stdout, report, order>>
    /\ UNCHANGED <<text, config, fs, fsBefore, dirsBefore, command, toolCall,
                   result, prevGen, run, error, written>>

\* generateToolImplementations: one turn of for (const tool of config.tools)
generateToolImplementations ==
    /\ pc = "tools"
    /\ ToolsDir \in dirs
    /\ fs' = WriteFile(fs, ToolPath(config.tools[toolIdx].name),
                       ToolCode(config.tools[toolIdx]))
    /\ written' = Append(written, ToolPath(config.tools[toolIdx].name))
    /\ toolIdx' = toolIdx + 1
    /\ IF toolIdx = Len(config.tools)
       THEN /\ pc' = Then("tsconfig")
            /\ order' = Rest
            /\ stdout' = IF order = <<>> THEN stdout \o GenerateLog(config) ELSE stdout
            /\ report' = IF order = <<>> THEN Undefined ELSE report
       ELSE /\ pc' = "tools"
            /\ UNCHANGED <<stdout, report, order>>
    /\ UNCHANGED <<text, config, dirs, fsBefore, dirsBefore, command, toolCall,
                   result, prevGen, run, error>>

generateTSConfig ==
    /\ pc = "tsconfig"
    /\ OutDir \in dirs
    /\ fs' = WriteFile(fs, TSConfigPath, TSConfig)
    /\ written' = Append(written, TSConfigPath)
    /\ pc' = Then("done")
    /\ order' = Rest
    /\ UNCHANGED <<text, config, dirs, toolIdx, fsBefore, dirsBefore, command,
                   toolCall, result, prevGen, run, stdout, error, report>>

\* the directory the statement at pc creates, when it creates one
DirMadeAt(at) ==
    CASE at = "mkdir" -> {OutDir}
      [] at = "srcdir" -> {SrcDir}
      [] at = "toolsdir" -> {ToolsDir}
      [] OTHER -> {}

\* the directory the statement at pc writes a file into
DirWrittenAt(at) ==
    CASE at = "index" -> SrcDir
      [] at = "tools" -> ToolsDir
      [] OTHER -> OutDir

\* the file the statement at pc writes
PathWrittenAt(at) ==
    CASE at = "package" -> PackageJsonPath
      [] at = "index" -> IndexPath
      [] at = "tools" -> ToolPath(config.tools[toolIdx].name)
      [] OTHER -> TSConfigPath

\* what writeFileSync leaves of a file it has opened (flag 'w': created or
\* cut to length zero) when the write then fails
Truncated == [truncated |-> TRUE]

\* mkdirSync or writeFileSync throws (no such directory, permission denied,
\* disk full) and the invocation ends.  A write that is refused leaves the
\* file system as it was; a write that runs out of space leaves the file cut.
WriteFails ==
    /\ \/ /\ pc \in {"package", "index", "tools", "tsconfig"}
          /\ \E code \in IF DirWrittenAt(pc) \in dirs THEN RefusedCodes ELSE {"ENOENT"} :
                /\ error' = SystemError("open", code)
                /\ fs' = IF code = "ENOSPC"
                         THEN WriteFile(fs, PathWrittenAt(pc), Truncated)
                         ELSE fs
       \/ /\ pc \in {"mkdir", "srcdir", "toolsdir"}
          /\ ~(DirMadeAt(pc) \subseteq dirs)
          /\ \E code \in RefusedCodes : error' = SystemError("mkdir", code)
          /\ fs' = fs
    /\ pc' = "failed"
    /\ UNCHANGED <<text, config, dirs, toolIdx, fsBefore, dirsBefore, command,
                   toolCall, result, prevGen, run, order, stdout, report,
                   written>>

\* a caller of the exported class generates again, from the same model, into
\* the same directory
Regenerate ==
    /\ pc = "done"
    /\ pc' = "package"
    /\ toolIdx' = 1
    /\ fsBefore' = fs
    /\ dirsBefore' = dirs
    /\ UNCHANGED <<command, toolCall, result>>
    /\ prevGen' = config
    /\ stdout' = <<>>
    /\ report' = NotReturned
    /\ written' = <<>>
    /\ UNCHANGED <<text, config, dirs, fs, run, order, error>>

(***************************************************************************)
(* The exported class used directly: generateMCPServer(config, "out") and  *)
(* generateTSConfig("out") on a model the parser can return.               *)
(***************************************************************************)
Parameters ==
    {[name |-> "message", type |-> "string", required |-> TRUE,
      description |-> "Text to echo"],
     [name |-> "count", type |-> "number", required |-> FALSE,
      description |-> "Repeat count"]}

Returns ==
    {[name |-> "response", type |-> "string", description |-> "The echoed text"],
     [name |-> "total", type |-> "number", description |-> "Number of echoes"],
     [name |-> "ok", type |-> "boolean", description |-> "Success flag"],
     [name |-> "items", type |-> "array", description |-> "Echo history"],
     [name |-> "context", type |-> "object", description |-> "Call context"]}

\* one tool with every parameter list and return list within the bounds
DetailedTools ==
    [name : {"echo_tool"},
     description : {"Echo the input"},
     parameters : BSeq(Parameters, MaxParams),
     returns : BSeq(Returns, MaxReturns),
     implementationPattern : {"echo input as output"}]

Tool(n, d, ps, rs, h) ==
    [name |-> n, description |-> d, parameters |-> ps, returns |-> rs,
     implementationPattern |-> h]

\* the tools of the models with several tools; two of them share a name
PlainTools ==
    {Tool("echo_tool", "Echo the input",
          <<[name |-> "message", type |-> "string", required |-> TRUE,
             description |-> "Text to echo"]>>,
          <<[name |-> "response", type |-> "string",
             description |-> "The echoed text"]>>,
          "echo input as output"),
     Tool("echo_tool", "Echo twice", <<>>,
          <<[name |-> "total", type |-> "number",
             description |-> "Number of echoes"]>>,
          "echo input twice"),
     Tool("list_dir", "List a directory",
          <<[name |-> "path", type |-> "string", required |-> TRUE,
             description |-> "Directory to list"],
            [name |-> "depth", type |-> "number", required |-> FALSE,
             description |-> "Levels to descend"]>>,
          <<[name |-> "items", type |-> "array", description |-> "Entries"]>>,
          "read the directory"),
     Tool("ping", "", <<>>, <<>>, "")}

ToolLists == {<<t>> : t \in DetailedTools} \cup BSeq(PlainTools, MaxTools)

ServerMetadata ==
    {[name |-> "generated-mcp-server", version |-> "0.1.0", transport |-> "stdio"],
     [name |-> "echo-server", version |-> "1.2.0", transport |-> "http"]}

Models ==
    {[name |-> m.name, version |-> m.version, transport |-> m.transport,
      capabilities |-> <<"tools", "resources">>, tools |-> ts] :
        m \in ServerMetadata, ts \in ToolLists}

\* an output directory an earlier generation and its user left files in
UsedFiles ==
    WriteFile(WriteFile(WriteFile(NoFiles,
        "out/README.md", [text |-> "notes"]),
        ToolPath("ping"), ToolCode(Tool("ping", "Old ping", <<>>, <<>>, "reply"))),
        PackageJsonPath, [name |-> "old-server", version |-> "0.0.1"])

AllDirs == {OutDir, SrcDir, ToolsDir}

InitGen ==
    /\ text = <<>>
    /\ config \in Models
    /\ pc = "package"
    /\ \/ dirs \in {{}, {OutDir}, AllDirs} /\ fs = NoFiles
       \/ dirs = AllDirs /\ fs = UsedFiles
    /\ toolIdx = 1
    /\ fsBefore = fs
    /\ dirsBefore = dirs
    /\ command = <<>>
    /\ toolCall = Null
    /\ result = NotReturned
    /\ prevGen = NoConfig
    /\ run = 1
    /\ stdout = <<>>
    /\ error = NoError
    /\ report = NotReturned
    /\ written = <<>>
    /\ order = <<>>

NextGen ==
    \/ generatePackageJson
    \/ EnsureSrcDir
    \/ generateServerTypeScript
    \/ EnsureToolsDir
    \/ generateToolImplementations
    \/ generateTSConfig
    \/ WriteFails
    \/ Regenerate

SpecGen == InitGen /\ [][NextGen]_vars

(***************************************************************************)
(* The four generators called one by one, each once, in an order of the    *)
(* caller's choice, on an output directory that exists.                    *)
(***************************************************************************)
Generators == {"manifest", "entryPoint", "stubs", "buildConfig"}

\* every order of the four calls
CallOrders ==
    {o \in [1..Cardinality(Generators) -> Generators] :
        \A i, j \in DOMAIN o : o[i] = o[j] => i = j}

\* the models the generators are called on in every order
OrderModels ==
    {[name |-> m.name, version |-> m.version, transport |-> m.transport,
      capabilities |-> <<"tools", "resources">>, tools |-> ts] :
        m \in ServerMetadata, ts \in BSeq(PlainTools, MaxTools)}

InitAnyOrder ==
    /\ text = <<>>
    /\ config \in OrderModels
    /\ \E o \in CallOrders : pc = Entry(o[1]) /\ order = Tail(o) \o <<"done">>
    /\ \/ dirs \in {{OutDir}, AllDirs} /\ fs = NoFiles
       \/ dirs = AllDirs /\ fs = UsedFiles
    /\ toolIdx = 1
    /\ fsBefore = fs
    /\ dirsBefore = dirs
    /\ command = <<>>
    /\ toolCall = Null
    /\ result = NotReturned
    /\ prevGen = NoConfig
    /\ run = 1
    /\ stdout = <<>>
    /\ error = NoError
    /\ report = NotReturned
    /\ written = <<>>

NextAnyOrder ==
    \/ generatePackageJson
    \/ EnsureSrcDir
    \/ generateServerTypeScript
    \/ EnsureToolsDir
    \/ generateToolImplementations
    \/ generateTSConfig
    \/ WriteFails

SpecAnyOrder == InitAnyOrder /\ [][NextAnyOrder]_vars

(***************************************************************************)
(* The command-line interface: node cnl_to_mcp_generator.js <cnl-file>     *)
(* <output-directory>, run up to MaxRuns times on the same directory.      *)
(***************************************************************************)
EmptySpec == <<>>

EchoSpec ==
    <<ToolHdr("echo_tool"), DescItem("Echo the input"), ParamsLbl,
      ParamLine("message", "string", "required", "Text to echo"),
      ReturnsLbl, ReturnLine("response", "string", "The echoed text"),
      ImplItem("echo input as output"),
      ConfigHdr, NameItem("echo-server"), VersionItem("1.2.0"), TransportItem("http")>>

ListDirSpec ==
    <<ToolHdr("list_dir"), DescItem("List a directory"), ParamsLbl,
      ParamLine("path", "string", "required", "Directory to list"),
      ParamLine("depth", "number", "optional", "Levels to descend"),
      ReturnsLbl, ReturnLine("items", "array", "Entries"),
      ReturnLine("context", "object", "Call context"),
      ImplItem("read the directory")>>

TwoToolsSpec ==
    <<ConfigHdr, NameItem("echo-server"), GenRules,
      ToolHdr("ping"),
      ToolHdr("echo_tool"), ReturnsLbl, ReturnLine("total", "number", "Number of echoes"),
      ReturnLine("ok", "boolean", "Success flag"), ImplItem("echo input twice")>>

DuplicateSpec ==
    <<ToolHdr("echo_tool"), DescItem("Echo the input"),
      ToolHdr("echo_tool"), DescItem("Echo twice")>>

\* implementation patterns with a line break and with a comment terminator
HintSpec ==
    <<ToolHdr("echo_tool"), DescItem("Echo the input"),
      ImplItem("echo input\nprocess.exit(1)"),
      ToolHdr("list_dir"),
      ImplItem("read */ process.exit(1) /* the directory")>>

CliTexts == {EmptySpec, EchoSpec, ListDirSpec, TwoToolsSpec, DuplicateSpec, HintSpec}

Init ==
    /\ text \in CliTexts
    /\ pc = "args"
    /\ config = NoConfig
    /\ \/ dirs = {} /\ fs = NoFiles
       \/ dirs = AllDirs /\ fs = UsedFiles
    /\ toolIdx = 1
    /\ fsBefore = fs
    /\ dirsBefore = dirs
    /\ command = <<>>
    /\ toolCall = Null
    /\ result = NotReturned
    /\ prevGen = NoConfig
    /\ run = 1
    /\ stdout = <<>>
    /\ error = NoError
    /\ report = NotReturned
    /\ written = <<>>
    /\ order = <<>>

\* if (!cnlFile || !outputDir) { console.error('Usage: ...'); process.exit(1) }
MissingArgs ==
    /\ pc = "args"
    /\ pc' = "usage"
    /\ UNCHANGED <<text, config, dirs, fs, toolIdx, fsBefore, dirsBefore,
                   command, toolCall, result, prevGen, run, order, stdout,
                   error, report, written>>

\* an invocation that creates the output directory as soon as it has its
\* arguments, before it reads the specification
CheckArgsMakesOutputDir ==
    /\ pc = "args"
    /\ pc' = "parse"
    /\ dirs' = dirs \cup {OutDir}
    /\ UNCHANGED <<text, config, fs, toolIdx, fsBefore, dirsBefore, command,
                   toolCall, result, prevGen, run, order, stdout, error,
                   report, written>>

\* both arguments are given
CheckArgs ==
    /\ pc = "args"
    /\ pc' = "parse"
    /\ UNCHANGED <<text, config, dirs, fs, toolIdx, fsBefore, dirsBefore,
                   command, toolCall, result, prevGen, run, order, stdout,
                   error, report, written>>

\* fs.readFileSync(filePath, 'utf-8') throws: the catch block exits with 1
ReadFails ==
    /\ pc = "parse"
    /\ stdout' = Append(stdout, ParsingLine)
    /\ \E code \in ReadCodes : error' = SystemError("open", code)
    /\ pc' = "failed"
    /\ UNCHANGED <<text, config, dirs, fs, toolIdx, fsBefore, dirsBefore,
                   command, toolCall, result, prevGen, run, order, report,
                   written>>

\* generator.generateTSConfig(outputDir) and the console.log lines that end
\* the try block
FinishGeneration ==
    /\ pc = "tsconfig"
    /\ OutDir \in dirs
    /\ fs' = WriteFile(fs, TSConfigPath, TSConfig)
    /\ written' = Append(written, TSConfigPath)
    /\ stdout' = stdout \o CompleteLines(config)
    /\ pc' = "done"
    /\ UNCHANGED <<text, config, dirs, toolIdx, fsBefore, dirsBefore, command,
                   toolCall, result, prevGen, run, order, error, report>>

\* what the invocation has written to the error stream: the usage line, or
\* console.error('Generation failed:', error) of the catch block
Stderr ==
    CASE pc = "usage" ->
            <<Line("Usage: node cnl_to_mcp_generator.js <cnl-file> <output-directory>")>>
      [] pc = "failed" -> <<[line |-> "Generation failed:", error |-> error]>>
      [] OTHER -> <<>>

\* the process has ended
Exited == pc \in {"done", "failed", "usage"}

\* ExitCode of a catch block that logs the error and lets the process end
\* normally
ExitCodeOfLoggedFailure == IF pc \in {"done", "failed"} THEN 0 ELSE 1

\* process.exit(1) on the usage error and in the catch block, 0 otherwise
ExitCode == IF pc = "done" THEN 0 ELSE 1

\* the next invocation, on any specification file, with the same output directory
Reinvoke ==
    /\ Exited
    /\ run < MaxRuns
    /\ text' \in CliTexts
    /\ pc' = "args"
    /\ config' = NoConfig
    /\ toolIdx' = 1
    /\ fsBefore' = fs
    /\ dirsBefore' = dirs
    /\ UNCHANGED <<command, toolCall, result>>
    /\ prevGen' = IF pc = "done" THEN config ELSE NoConfig
    /\ run' = run + 1
    /\ stdout' = <<>>
    /\ error' = NoError
    /\ report' = NotReturned
    /\ written' = <<>>
    /\ UNCHANGED <<dirs, fs, order>>

Next ==
    \/ MissingArgs
    \/ CheckArgs
    \/ ReadFails
    \/ ParseStep
    \/ EnsureOutputDir
    \/ generatePackageJson
    \/ EnsureSrcDir
    \/ generateServerTypeScript
    \/ EnsureToolsDir
    \/ generateToolImplementations
    \/ FinishGeneration
    \/ WriteFails
    \/ Reinvoke

Spec == Init /\ [][Next]_vars

(***************************************************************************)
(* The command-to-call mapper, CommandToMCPParser.  A command is the        *)
(* sequence of the words of command.trim(); every word of the vocabulary   *)
(* is made of word characters, so that \w+ takes a whole word and \s+ the  *)
(* gap between two words.  A pattern is searched from the left, as         *)
(* String.prototype.match does for a pattern without the g flag, and its   *)
(* capture groups are kept as the words they span.                         *)
(***************************************************************************)
\* the number of phrases a command is made of
MaxPhrases == 2

\* toLowerCase(), and the i flag of every pattern
Lower(w) ==
    CASE w = "Slack"  -> "slack"
      [] w = "Launch" -> "launch"
      [] OTHER        -> w

\* the text of a sequence of words, the words `sep` apart
RECURSIVE Join(_, _)
Join(ws, sep) ==
    IF ws = <<>> THEN ""
    ELSE IF Len(ws) = 1 THEN ws[1]
    ELSE ws[1] \o sep \o Join(Tail(ws), sep)

\* there is a word at position i of w
Has(w, i) == i \in DOMAIN w

\* the word at position i of w is the keyword kw, whatever its case
Kw(w, i, kw) == i \in DOMAIN w /\ Lower(w[i]) = kw

\* the word at position i of w is one of the alternatives kws
KwIn(w, i, kws) == i \in DOMAIN w /\ Lower(w[i]) \in kws

\* `monitor` and `monitors?` are not followed by a boundary: the word at i
\* begins with monitor
MonitorAt(w, i) == KwIn(w, i, {"monitor", "monitors"})

\* \d+ at the beginning of the word at position i
DigitsAt(w, i) == i \in DOMAIN w /\ w[i] \in {"1", "2"}

\* parseInt of a word \d+ has matched
parseInt(ref) == CASE ref = "1" -> 1 [] ref = "2" -> 2

\* what a successful match returns: the capture groups
Groups(gs) == [groups |-> gs]

\* /open\s+(\w+)\s+on\s+(?:the\s+)?(\w+(?:-\w+)?)\s+of\s+(?:my\s+)?(\w+)\s+monitor/i
\* at position i, with the optional `the` and `my` taken (1) or not (0)
OpenOnAt(w, i, the, my) ==
    IF /\ Kw(w, i, "open") /\ Has(w, i + 1) /\ Kw(w, i + 2, "on")
       /\ (the = 1 => Kw(w, i + 3, "the"))
       /\ Has(w, i + 3 + the)
       /\ Kw(w, i + 4 + the, "of")
       /\ (my = 1 => Kw(w, i + 5 + the, "my"))
       /\ Has(w, i + 5 + the + my)
       /\ MonitorAt(w, i + 6 + the + my)
    THEN Groups(<< <<w[i + 1]>>, <<w[i + 3 + the]>>, <<w[i + 5 + the + my]>> >>)
    ELSE Null

\* the optional groups are greedy: taken first, given up on backtracking
PatternOpenOn(w, i) ==
    IF OpenOnAt(w, i, 1, 1) # Null THEN OpenOnAt(w, i, 1, 1)
    ELSE IF OpenOnAt(w, i, 1, 0) # Null THEN OpenOnAt(w, i, 1, 0)
    ELSE IF OpenOnAt(w, i, 0, 1) # Null THEN OpenOnAt(w, i, 0, 1)
    ELSE OpenOnAt(w, i, 0, 0)

\* (?:of\s+)?(?:monitor\s+)?(\d+)? from position j: group 3, "" when it took
\* no part in the match
MoveTail(w, j) ==
    LET j1 == IF Kw(w, j, "of") /\ Has(w, j + 1) THEN j + 1 ELSE j
        j2 == IF Kw(w, j1, "monitor") /\ Has(w, j1 + 1) THEN j1 + 1 ELSE j1
    IN  IF DigitsAt(w, j2) THEN <<w[j2]>> ELSE <<>>

\* /move\s+(\w+)\s+to\s+(\w+(?:\s+\w+)?)\s+(?:of\s+)?(?:monitor\s+)?(\d+)?/i
\* the position takes two words when a third follows, since \s+ after it must
\* match; one word when only one follows
PatternMove(w, i) ==
    IF Kw(w, i, "move") /\ Has(w, i + 1) /\ Kw(w, i + 2, "to") /\ Has(w, i + 4)
    THEN IF Has(w, i + 5)
         THEN Groups(<< <<w[i + 1]>>, <<w[i + 3], w[i + 4]>>, MoveTail(w, i + 5) >>)
         ELSE Groups(<< <<w[i + 1]>>, <<w[i + 3]>>, MoveTail(w, i + 4) >>)
    ELSE Null

\* /show\s+(?:me\s+)?(?:all\s+)?(?:my\s+)?monitors?/i
PatternShow(w, i) ==
    LET j1 == IF Kw(w, i + 1, "me") THEN i + 2 ELSE i + 1
        j2 == IF Kw(w, j1, "all") THEN j1 + 1 ELSE j1
        j3 == IF Kw(w, j2, "my") THEN j2 + 1 ELSE j2
    IN  IF Kw(w, i, "show") /\ MonitorAt(w, j3) THEN Groups(<<>>) ELSE Null

\* /(?:arrange|setup|organize)\s+(\w+)\s+layout/i
PatternLayout(w, i) ==
    IF KwIn(w, i, {"arrange", "setup", "organize"}) /\ Has(w, i + 1)
       /\ Kw(w, i + 2, "layout")
    THEN Groups(<< <<w[i + 1]>> >>)
    ELSE Null

\* /(?:watch|monitor|observe)\s+terminal\s+(\w+)/i
PatternWatch(w, i) ==
    IF KwIn(w, i, {"watch", "monitor", "observe"}) /\ Kw(w, i + 1, "terminal")
       /\ Has(w, i + 2)
    THEN Groups(<< <<w[i + 2]>> >>)
    ELSE Null

\* /run\s+(.+)\s+in\s+terminal\s+(\w+)/i: the greedy .+ runs to the last
\* `in terminal <word>`
PatternRun(w, i) ==
    LET ends == {j \in DOMAIN w : /\ j >= i + 2
                                  /\ Kw(w, j, "in") /\ Kw(w, j + 1, "terminal")
                                  /\ Has(w, j + 2)}
    IN  IF Kw(w, i, "run") /\ ends # {}
        THEN LET j == CHOOSE e \in ends : \A f \in ends : f <= e
             IN  Groups(<< SubSeq(w, i + 1, j - 1), <<w[j + 2]>> >>)
        ELSE Null

\* /(?:open|launch|start)\s+(\w+)/i
PatternLaunch(w, i) ==
    IF KwIn(w, i, {"open", "launch", "start"}) /\ Has(w, i + 1)
    THEN Groups(<< <<w[i + 1]>> >>)
    ELSE Null

\* the k-th registered pattern tried at position i of w
MatchAt(k, w, i) ==
    CASE k = 1 -> PatternOpenOn(w, i)
      [] k = 2 -> PatternMove(w, i)
      [] k = 3 -> PatternShow(w, i)
      [] k = 4 -> PatternLayout(w, i)
      [] k = 5 -> PatternWatch(w, i)
      [] k = 6 -> PatternRun(w, i)
      [] k = 7 -> PatternLaunch(w, i)

\* cleanCommand.match(pattern): the leftmost match, null when there is none
Match(k, w) ==
    LET starts == {i \in DOMAIN w : MatchAt(k, w, i) # Null}
    IN  IF starts = {} THEN Null ELSE MatchAt(k, w, Min(starts))

\* parseMonitorReference(ref)
parseMonitorReference(ref) ==
    CASE Lower(ref) \in {"first", "primary", "main"} -> 0
      [] Lower(ref) \in {"second", "secondary"}      -> 1
      [] Lower(ref) = "third"                        -> 2
      [] Lower(ref) = "fourth"                       -> 3
      [] OTHER -> IF ref \in {"1", "2"} THEN parseInt(ref) - 1 ELSE 0

\* an MCPToolCall
MCPToolCall(tool, server, parameters) ==
    [tool |-> tool, server |-> server, parameters |-> parameters]

\* the handler registered with the k-th pattern, applied to a match
Handler(k, matches) ==
    LET g == matches.groups
    IN  CASE k = 1 -> MCPToolCall("window_launcher", "turtle-window-control",
                          [application |-> Lower(g[1][1]),
                           position |-> Lower(g[2][1]),
                           monitor |-> parseMonitorReference(g[3][1])])
          [] k = 2 -> MCPToolCall("window_controller", "turtle-window-control",
                          IF g[3] # <<>>
                          THEN [application_name |-> Lower(g[1][1]),
                                action |-> "move",
                                position |-> Join([x \in DOMAIN g[2] |-> Lower(g[2][x])], "-"),
                                monitor |-> parseInt(g[3][1])]
                          ELSE [application_name |-> Lower(g[1][1]),
                                action |-> "move",
                                position |-> Join([x \in DOMAIN g[2] |-> Lower(g[2][x])], "-")])
          [] k = 3 -> MCPToolCall("monitor_detector", "turtle-window-control",
                          [list_all |-> TRUE])
          [] k = 4 -> MCPToolCall("workspace_organizer", "turtle-window-control",
                          [layout |-> Lower(g[1][1]), applications |-> <<>>])
          [] k = 5 -> MCPToolCall("terminal_observer", "turtle-terminal-control",
                          [terminal_id |-> g[1][1], follow |-> TRUE])
          [] k = 6 -> MCPToolCall("terminal_commander", "turtle-terminal-control",
                          [terminal_id |-> g[2][1],
                           command |-> Join(g[1], " "),
                           wait_for_completion |-> FALSE])
          [] k = 7 -> MCPToolCall("window_launcher", "turtle-window-control",
                          [application |-> Lower(g[1][1])])

\* this.patterns after the constructor: the patterns in the order
\* initializePatterns registers them with addPattern
patterns ==
    << "/open\\s+(\\w+)\\s+on\\s+(?:the\\s+)?(\\w+(?:-\\w+)?)\\s+of\\s+(?:my\\s+)?(\\w+)\\s+monitor/i",
       "/move\\s+(\\w+)\\s+to\\s+(\\w+(?:\\s+\\w+)?)\\s+(?:of\\s+)?(?:monitor\\s+)?(\\d+)?/i",
       "/show\\s+(?:me\\s+)?(?:all\\s+)?(?:my\\s+)?monitors?/i",
       "/(?:arrange|setup|organize)\\s+(\\w+)\\s+layout/i",
       "/(?:watch|monitor|observe)\\s+terminal\\s+(\\w+)/i",
       "/run\\s+(.+)\\s+in\\s+terminal\\s+(\\w+)/i",
       "/(?:open|launch|start)\\s+(\\w+)/i" >>

\* the lines parseCommand logs when pattern k has matched
MatchedLines(k, cleanCommand, call) ==
    << Line("Matched pattern: " \o patterns[k]),
       Line("Command: \"" \o Join(cleanCommand, " ") \o "\""),
       [line |-> "Generated MCP call:", call |-> call] >>

\* the line parseCommand logs when no pattern has matched
NoMatchLine(cleanCommand) ==
    Line("No pattern matched for: \"" \o Join(cleanCommand, " ") \o "\"")

\* the loop of parseCommand that keeps the call of the last pattern that
\* matches
parseCommandFromLastMatch(cleanCommand, k) ==
    LET hits == {j \in k..Len(patterns) : Match(j, cleanCommand) # Null}
    IN  IF hits = {}
        THEN [toolCall |-> Null, log |-> <<NoMatchLine(cleanCommand)>>]
        ELSE LET j == CHOOSE h \in hits : \A f \in hits : f <= h
                 call == Handler(j, Match(j, cleanCommand))
             IN  [toolCall |-> call, log |-> MatchedLines(j, cleanCommand, call)]

\* for (const { pattern, handler } of this.patterns), from the k-th pattern
\* on: what parseCommand returns and what it logs
RECURSIVE parseCommandFrom(_, _)
parseCommandFrom(cleanCommand, k) ==
    IF k > Len(patterns)
    THEN [toolCall |-> Null, log |-> <<NoMatchLine(cleanCommand)>>]
    ELSE LET matches == Match(k, cleanCommand)
         IN  IF matches # Null
             THEN LET call == Handler(k, matches)
                  IN  [toolCall |-> call, log |-> MatchedLines(k, cleanCommand, call)]
             ELSE parseCommandFrom(cleanCommand, k + 1)

\* the line processCommand logs first
ProcessingLine(cmd) == Line("Processing command: \"" \o Join(cmd, " ") \o "\"")

\* processCommand: console.log(...); const toolCall = this.parseCommand(command)
parseCommand ==
    /\ pc = "process"
    /\ LET r == parseCommandFrom(command, 1)
       IN  /\ toolCall' = r.toolCall
           /\ stdout' = <<ProcessingLine(command)>> \o r.log
    /\ pc' = "parsed"
    /\ UNCHANGED <<text, config, dirs, fs, toolIdx, fsBefore, dirsBefore,
                   command, result, prevGen, run, error, report, written,
                   order>>

\* processCommand: if (!toolCall) return { error: ... }
ReturnError ==
    /\ pc = "parsed"
    /\ toolCall = Null
    /\ result' = [error |-> "Could not parse command into MCP tool call"]
    /\ pc' = "returned"
    /\ UNCHANGED <<text, config, dirs, fs, toolIdx, fsBefore, dirsBefore,
                   command, toolCall, prevGen, run, stdout, error, report,
                   written, order>>

\* the line executeMCPCall logs
ExecutingLine(call) == Line("Executing MCP call to " \o call.server \o "." \o call.tool)

\* processCommand: return await this.executeMCPCall(toolCall)
executeMCPCall ==
    /\ pc = "parsed"
    /\ toolCall # Null
    /\ stdout' = Append(stdout, ExecutingLine(toolCall))
    /\ result' = [success |-> TRUE, tool |-> toolCall.tool,
                  server |-> toolCall.server,
                  parameters |-> toolCall.parameters,
                  result |-> "Mock execution of " \o toolCall.tool]
    /\ pc' = "returned"
    /\ UNCHANGED <<text, config, dirs, fs, toolIdx, fsBefore, dirsBefore,
                   command, toolCall, prevGen, run, error, report, written,
                   order>>

\* the phrases commands are made of
Phrases ==
    { <<"open", "Slack">>,
      <<"Launch", "firefox">>,
      <<"on", "the", "left", "of", "my", "second", "monitor">>,
      <<"on", "top", "third", "of", "second", "monitor">>,
      <<"move", "terminal", "to", "left", "half">>,
      <<"of", "monitor", "1">>,
      <<"show", "me", "all", "my", "monitors">>,
      <<"arrange", "development", "layout">>,
      <<"watch", "terminal", "main">>,
      <<"run", "npm", "start">>,
      <<"in", "terminal", "dev">>,
      <<"please">>,
      <<"hello", "turtle">> }

\* the commands of at most n phrases
RECURSIVE CommandsOf(_)
CommandsOf(n) ==
    IF n = 0 THEN {<<>>}
    ELSE CommandsOf(n - 1) \cup {c \o p : c \in CommandsOf(n - 1), p \in Phrases}

Commands == CommandsOf(MaxPhrases)

\* for (const command of testCommands) await parser.processCommand(command):
\* the same parser is given the next command
NextCommand ==
    /\ pc = "returned"
    /\ command' \in Commands
    /\ toolCall' = Null
    /\ result' = NotReturned
    /\ stdout' = <<>>
    /\ pc' = "process"
    /\ UNCHANGED <<text, config, dirs, fs, toolIdx, fsBefore, dirsBefore,
                   prevGen, run, error, report, written, order>>

InitCommand ==
    /\ text = <<>>
    /\ pc = "process"
    /\ config = NoConfig
    /\ dirs = {}
    /\ fs = NoFiles
    /\ toolIdx = 1
    /\ fsBefore = NoFiles
    /\ dirsBefore = {}
    /\ command \in Commands
    /\ toolCall = Null
    /\ result = NotReturned
    /\ prevGen = NoConfig
    /\ run = 1
    /\ stdout = <<>>
    /\ error = NoError
    /\ report = NotReturned
    /\ written = <<>>
    /\ order = <<>>

NextCommandStep ==
    \/ parseCommand
    \/ ReturnError
    \/ executeMCPCall
    \/ NextCommand

SpecCommand == InitCommand /\ [][NextCommandStep]_vars

(***************************************************************************)
(* What the claims say about a specification text, read off the text and   *)
(* not off the parser.                                                     *)
(***************************************************************************)
\* parseCNLFile has returned a model
Parsed == config # NoConfig

\* positions of the tool headers of t
HdrIdx(t) == IdxOf(t, "TOOL_SPECIFICATION")

\* position of the m-th tool header of t
NthHdr(t, m) == CHOOSE i \in HdrIdx(t) : Cardinality({j \in HdrIdx(t) : j <= i}) = m

\* positions of the items of the tool block whose header is at i
BlockIdx(t, i) ==
    {j \in DOMAIN t : /\ j > i
                       /\ \A k \in (i + 1)..j :
                             t[k].k \notin {"TOOL_SPECIFICATION", "MCP_SERVER_CONFIGURATION:"}}

\* the block at i has a sub-section labelled k
HasSection(t, i, k) == \E j \in BlockIdx(t, i) : t[j].k = k

\* positions of the list lines of shape `shape` in the sub-section of the block
\* at i that `label` opens and `closing` closes (or the end of the block does)
SectionLines(t, i, label, closing, shape) ==
    LET opens == {j \in BlockIdx(t, i) : t[j].k = label}
    IN  IF opens = {} THEN {}
        ELSE {j \in BlockIdx(t, i) :
                 /\ t[j].k = shape
                 /\ j > Min(opens)
                 /\ \A r \in (Min(opens) + 1)..j : t[r].k # closing}

\* two tool blocks of t declare the same name
HasDuplicateToolNames(t) ==
    \E i, j \in HdrIdx(t) : i < j /\ t[i].n = t[j].n

\* the tool names of t's blocks, in text order
HeaderNames(t) ==
    LET headers == SelectSeq(t, LAMBDA l : l.k = "TOOL_SPECIFICATION")
    IN  [i \in DOMAIN headers |-> headers[i].n]

(***************************************************************************)
(* C1: parsing a text in which two tool blocks declare the same name fails *)
(* with DuplicateToolName, so no model is returned for it.                 *)
(***************************************************************************)
C1_DuplicateToolNameRejected ==
    HasDuplicateToolNames(text) => ~Parsed

(***************************************************************************)
(* C2, as claimed: parsing a text without a server configuration block     *)
(* fails with MalformedSpecification instead of returning a model.         *)
(***************************************************************************)
C2_MissingConfigBlockRejected ==
    IdxOf(text, "MCP_SERVER_CONFIGURATION:") = {} => ~Parsed

(***************************************************************************)
(* C2, amended: parsing a text without a server configuration block        *)
(* returns a model; its metadata are the defaults "generated-mcp-server",  *)
(* "0.1.0" and "stdio", whatever NAME, VERSION or TRANSPORT items the text *)
(* holds elsewhere, and its tools are those of the tool blocks.            *)
(***************************************************************************)
C2_MissingConfigBlockDefaults ==
    (Parsed /\ IdxOf(text, "MCP_SERVER_CONFIGURATION:") = {}) =>
        /\ config.name = "generated-mcp-server"
        /\ config.version = "0.1.0"
        /\ config.transport = "stdio"
        /\ Len(config.tools) = Cardinality(HdrIdx(text))

C2_Witness ==
    /\ Parsed
    /\ IdxOf(text, "MCP_SERVER_CONFIGURATION:") = {}
    /\ IdxOf(text, "NAME:") # {}
    /\ IdxOf(text, "VERSION:") # {}
    /\ HdrIdx(text) # {}

(***************************************************************************)
(* C8: for a text whose tool blocks have distinct names, the model has one *)
(* tool descriptor per tool block, in the order of the blocks.             *)
(***************************************************************************)
C8_ToolCountAndOrder ==
    (Parsed /\ ~HasDuplicateToolNames(text)) =>
        [i \in DOMAIN config.tools |-> config.tools[i].name] = HeaderNames(text)

C8_Witness ==
    /\ Parsed
    /\ ~HasDuplicateToolNames(text)
    /\ Len(config.tools) = 2
    /\ config.tools[1].name = "list_dir"
    /\ config.tools[2].name = "echo_tool"
    /\ \E c \in IdxOf(text, "MCP_SERVER_CONFIGURATION:") : c < NthHdr(text, 2)

(***************************************************************************)
(* C9: the sub-sections are extracted independently: the parameter list    *)
(* has one entry per list line of the PARAMETERS sub-section whether or    *)
(* not a RETURNS sub-section follows, and the return list has one entry    *)
(* per list line of the RETURNS sub-section whether or not an              *)
(* IMPLEMENTATION_PATTERN sub-section follows.  A list line is taken as    *)
(* the parser's own line pattern takes it.                                 *)
(***************************************************************************)
C9_SectionsIndependent ==
    (Parsed /\ Len(config.tools) = Cardinality(HdrIdx(text))) =>
        \A m \in DOMAIN config.tools :
            /\ Len(config.tools[m].parameters) =
                  Cardinality(SectionLines(text, NthHdr(text, m),
                                           "PARAMETERS:", "RETURNS:", "paramLine"))
            /\ Len(config.tools[m].returns) =
                  Cardinality(SectionLines(text, NthHdr(text, m),
                                           "RETURNS:", "IMPLEMENTATION_PATTERN:",
                                           "returnLine"))

(***************************************************************************)
(* C10: a missing optional sub-section never makes parse fail: for every   *)
(* tool block the descriptor is in the model, an absent DESCRIPTION or     *)
(* IMPLEMENTATION_PATTERN gives the empty string and an absent PARAMETERS  *)
(* or RETURNS gives the empty list.                                        *)
(***************************************************************************)
C10_MissingSectionsDefault ==
    Parsed =>
        /\ Len(config.tools) = Cardinality(HdrIdx(text))
        /\ \A m \in 1..Cardinality(HdrIdx(text)) :
              LET i == NthHdr(text, m)
                  tool == config.tools[m]
              IN  /\ tool.name = text[i].n
                  /\ ~HasSection(text, i, "DESCRIPTION:") => tool.description = ""
                  /\ ~HasSection(text, i, "IMPLEMENTATION_PATTERN:") =>
                        tool.implementationPattern = ""
                  /\ ~HasSection(text, i, "PARAMETERS:") => tool.parameters = <<>>
                  /\ ~HasSection(text, i, "RETURNS:") => tool.returns = <<>>

\* a block without any sub-section, followed by a block that has them
C10_Witness ==
    /\ Parsed
    /\ Len(config.tools) = 2
    /\ BlockIdx(text, NthHdr(text, 1)) = {}
    /\ config.tools[1].description = ""
    /\ config.tools[1].implementationPattern = ""
    /\ config.tools[2].description # ""
    /\ config.tools[2].implementationPattern # ""

(***************************************************************************)
(* What the claims say about the files of a generation.                    *)
(***************************************************************************)
\* the entry point on disk was written by the current invocation
IndexWritten == pc \in {"toolsdir", "tools", "tsconfig", "done"}

\* the k-th smallest element of the set of positions S
Nth(S, k) == CHOOSE i \in S : Cardinality({j \in S : j <= i}) = k

\* positions of the parameters whose required flag is true
RequiredIdx(parameters) == {j \in DOMAIN parameters : parameters[j].required}

\* tool i is the last tool of the model with its name: its stub is the one left
\* in src/tools/<name>.ts when the loop over the tools has ended
LastWithName(tools, i) == \A j \in DOMAIN tools : j > i => tools[j].name # tools[i].name

\* the mechanical default of a kind, as the specification states it
SpecDefault(kind) ==
    CASE kind = "string"  -> "\"\""
      [] kind = "number"  -> "0"
      [] kind = "boolean" -> "false"
      [] kind = "array"   -> "[]"

PrimitiveKinds == {"string", "number", "boolean", "array"}

\* the names a CallTool request is tried with
RequestNames == {"echo_tool", "list_dir", "ping", "rm_rf", ""}

(***************************************************************************)
(* C3: for every tool of the model, the required array of its entry in the *)
(* entry point's ListTools answer holds exactly the names of the tool's    *)
(* parameters whose required flag is true, in parameter order.             *)
(***************************************************************************)
C3_RequiredArrayExact ==
    IndexWritten =>
        /\ Len(fs[IndexPath].listTools) = Len(config.tools)
        /\ \A i \in DOMAIN config.tools :
              LET required == fs[IndexPath].listTools[i].inputSchema.required
                  ps == config.tools[i].parameters
              IN  /\ fs[IndexPath].listTools[i].name = config.tools[i].name
                  /\ Len(required) = Cardinality(RequiredIdx(ps))
                  /\ \A k \in DOMAIN required :
                        required[k] = ps[Nth(RequiredIdx(ps), k)].name

\* an optional parameter before a required one: only the second is listed
C3_Witness ==
    /\ pc = "done"
    /\ Len(config.tools) = 1
    /\ Len(config.tools[1].parameters) = 2
    /\ ~config.tools[1].parameters[1].required
    /\ config.tools[1].parameters[2].required
    /\ fs[IndexPath].listTools[1].inputSchema.required = <<"message">>

(***************************************************************************)
(* C4, as claimed: the placeholder of every return field is the default of *)
(* its kind: "" for string, 0 for number, false for boolean, [] for list.  *)
(***************************************************************************)
C4_PlaceholderBySpecDefault ==
    pc = "done" =>
        \A i \in DOMAIN config.tools :
            LastWithName(config.tools, i) =>
                LET stub == fs[ToolPath(config.tools[i].name)]
                    rets == config.tools[i].returns
                IN  /\ Len(stub.result) = Len(rets)
                    /\ \A k \in DOMAIN rets :
                          rets[k].type \in PrimitiveKinds =>
                              stub.result[k].value = SpecDefault(rets[k].type)

(***************************************************************************)
(* C4, amended: the placeholder of a return field of kind number is 0, of  *)
(* kind boolean false, of kind array [], and of kind string the string     *)
(* "placeholder_<field name>", which depends on the field's name.          *)
(***************************************************************************)
C4_PlaceholderByKindAndName ==
    pc = "done" =>
        \A i \in DOMAIN config.tools :
            LastWithName(config.tools, i) =>
                LET stub == fs[ToolPath(config.tools[i].name)]
                    rets == config.tools[i].returns
                IN  /\ Len(stub.result) = Len(rets)
                    /\ \A k \in DOMAIN rets :
                          /\ stub.result[k].name = rets[k].name
                          /\ rets[k].type = "string" =>
                                stub.result[k].value = "\"placeholder_" \o rets[k].name \o "\""
                          /\ rets[k].type \in PrimitiveKinds \ {"string"} =>
                                stub.result[k].value = SpecDefault(rets[k].type)

C4_Witness ==
    /\ pc = "done"
    /\ Len(config.tools) = 2
    /\ config.tools[1].name = "echo_tool"
    /\ config.tools[2].name = "list_dir"
    /\ fs[ToolPath("echo_tool")].result =
          <<[name |-> "response", value |-> "\"placeholder_response\""]>>
    /\ fs[ToolPath("list_dir")].result = <<[name |-> "items", value |-> "[]"]>>

(***************************************************************************)
(* C5: for every specification text, every return field of every generated *)
(* stub is assigned a structurally valid default, never null and never no  *)
(* value, whatever kind token its RETURNS line carried.                    *)
(***************************************************************************)
C5_PlaceholderNeverNull ==
    pc = "done" =>
        \A i \in DOMAIN config.tools :
            LastWithName(config.tools, i) =>
                LET stub == fs[ToolPath(config.tools[i].name)]
                IN  /\ Len(stub.result) = Len(config.tools[i].returns)
                    /\ \A k \in DOMAIN stub.result : stub.result[k].value # "null"

(***************************************************************************)
(* C6: generate is idempotent: a generation from the model of the          *)
(* completed generation before it, into the same directory, ends with      *)
(* every file holding the content it had and with the same set of files.   *)
(***************************************************************************)
C6_GenerateIdempotent ==
    (pc = "done" /\ prevGen = config) =>
        /\ DOMAIN fs = DOMAIN fsBefore
        /\ \A p \in DOMAIN fs : fs[p] = fsBefore[p]

C6_Witness ==
    /\ pc = "done"
    /\ prevGen = config
    /\ Len(config.tools) = 2
    /\ config.tools[1].name # config.tools[2].name
    /\ "out/README.md" \in DOMAIN fs
    /\ fs = fsBefore

(***************************************************************************)
(* C7: in the generated CallTool handler a request naming a declared tool  *)
(* invokes that tool's imported stub function and no other, and a request  *)
(* naming any other tool raises the unknown-tool error with that name and  *)
(* invokes no stub.                                                        *)
(***************************************************************************)
C7_DispatchExact ==
    IndexWritten =>
        \A name \in RequestNames :
            LET declared == \E i \in DOMAIN config.tools : config.tools[i].name = name
                answer == CallTool(fs[IndexPath], name)
            IN  /\ declared =>
                    /\ answer = [invoked |-> <<name>>, error |-> ""]
                    /\ \E i \in DOMAIN fs[IndexPath].imports :
                          fs[IndexPath].imports[i] =
                              [fn |-> name, from |-> "./tools/" \o name \o ".js"]
                /\ ~declared =>
                    answer = [invoked |-> <<>>, error |-> "Unknown tool: " \o name]

\* two declared tools: the second is reached past the first's case, and an
\* undeclared name falls to the default
C7_Witness ==
    /\ pc = "done"
    /\ Len(config.tools) = 2
    /\ config.tools[1].name = "echo_tool"
    /\ config.tools[2].name = "list_dir"
    /\ CallTool(fs[IndexPath], "list_dir").invoked = <<"list_dir">>
    /\ CallTool(fs[IndexPath], "ping").error = "Unknown tool: ping"

(***************************************************************************)
(* What the claims say about the server configuration block of a text.     *)
(***************************************************************************)
\* positions of the items of the server configuration block of t: what
\* follows the first MCP_SERVER_CONFIGURATION: header, up to GENERATION_RULES
\* or the end of the text
ConfigBlockIdx(t) ==
    LET cs == IdxOf(t, "MCP_SERVER_CONFIGURATION:")
    IN  IF cs = {} THEN {}
        ELSE {j \in DOMAIN t : /\ j > Min(cs)
                               /\ \A k \in (Min(cs) + 1)..j : t[k].k # "GENERATION_RULES"}

\* positions of the fields labelled `label` in the configuration block of t
FieldIdx(t, label) == {j \in ConfigBlockIdx(t) : t[j].k = label}

\* the value the claim gives a metadata field: the quoted value of the field
\* when the block has it, the field's default when it has not
FieldOrDefault(t, label, default) ==
    IF FieldIdx(t, label) = {} THEN default ELSE t[Min(FieldIdx(t, label))].d

DistinctToolNames(cfg) ==
    \A i, j \in DOMAIN cfg.tools : cfg.tools[i].name = cfg.tools[j].name => i = j

\* the invocation started with no file in the output directory and has
\* run to completion
GeneratedIntoEmpty == pc = "done" /\ fsBefore = NoFiles

\* the files under src/tools/
StubFiles == {p \in DOMAIN fs : \E i \in DOMAIN config.tools :
                                   p = "out/src/tools/" \o config.tools[i].name \o ".ts"}

(***************************************************************************)
(* C12: for a model with pairwise distinct tool names, a generation into   *)
(* an empty output directory leaves exactly one manifest, one build        *)
(* configuration, one entry point under src/ and one stub per tool under   *)
(* src/tools/, each stub named after its tool and holding that tool's      *)
(* function, and no other file.                                            *)
(***************************************************************************)
C12_ExactlyTheArtifacts ==
    (GeneratedIntoEmpty /\ DistinctToolNames(config)) =>
        /\ DOMAIN fs = {"out/package.json", "out/tsconfig.json", "out/src/index.ts"}
                           \cup StubFiles
        /\ Cardinality(StubFiles) = Len(config.tools)
        /\ \A i \in DOMAIN config.tools :
              LET stub == "out/src/tools/" \o config.tools[i].name \o ".ts"
              IN  /\ stub \in DOMAIN fs
                  /\ fs[stub].function = config.tools[i].name
                  /\ fs[stub].docComment.description = config.tools[i].description

\* two tools with different names, generated into an empty directory
C12_Witness ==
    /\ GeneratedIntoEmpty
    /\ Len(config.tools) = 2
    /\ config.tools[1].name = "list_dir"
    /\ config.tools[2].name = "echo_tool"
    /\ DOMAIN fs = {"out/package.json", "out/tsconfig.json", "out/src/index.ts",
                    "out/src/tools/list_dir.ts", "out/src/tools/echo_tool.ts"}

(***************************************************************************)
(* C13: for a model with zero tools the generation succeeds and writes the *)
(* manifest, the build configuration and an entry point whose ListTools    *)
(* handler returns the empty list and whose CallTool handler raises the    *)
(* unknown-tool error for every name; nothing is written under src/tools/. *)
(* Success: the loop over the tools is never entered, every generator step *)
(* of such a model can be taken once its directory exists, and at the end  *)
(* the three files are there.                                              *)
(***************************************************************************)
C13_ZeroToolsGenerates ==
    (Parsed /\ Len(config.tools) = 0) =>
        /\ pc # "tools"
        /\ (pc = "package" /\ "out" \in dirs) => ENABLED generatePackageJson
        /\ pc = "srcdir" => ENABLED EnsureSrcDir
        /\ pc = "index" => ENABLED generateServerTypeScript
        /\ pc = "toolsdir" => ENABLED EnsureToolsDir
        /\ pc = "tsconfig" => ENABLED generateTSConfig
        /\ IndexWritten =>
              /\ fs[IndexPath].listTools = <<>>
              /\ fs[IndexPath].imports = <<>>
              /\ \A name \in RequestNames :
                    CallTool(fs[IndexPath], name) =
                        [invoked |-> <<>>, error |-> "Unknown tool: " \o name]
        /\ pc = "done" =>
              /\ {"out/package.json", "out/tsconfig.json", "out/src/index.ts"}
                     \subseteq DOMAIN fs
              /\ fs["out/package.json"].name = config.name
              /\ {p \in DOMAIN fs \ DOMAIN fsBefore :
                     p \notin {"out/package.json", "out/tsconfig.json",
                               "out/src/index.ts"}} = {}
              /\ \A p \in DOMAIN fsBefore : fs[p] # fsBefore[p] =>
                     p \in {"out/package.json", "out/tsconfig.json", "out/src/index.ts"}

\* a model without tools, generated to the end
C13_Witness ==
    /\ pc = "done"
    /\ Parsed
    /\ Len(config.tools) = 0
    /\ fs[IndexPath].listTools = <<>>
    /\ CallTool(fs[IndexPath], "echo_tool").error = "Unknown tool: echo_tool"
    /\ fs["out/tsconfig.json"].include = <<"src/**/*">>

(***************************************************************************)
(* C14: in the generated entry point the import statements, the ListTools  *)
(* entries and the CallTool cases each hold exactly one item per tool of   *)
(* the model, in the model's order, and that order is the order of the     *)
(* tool blocks in the specification text.                                  *)
(***************************************************************************)
C14_EntryPointInModelOrder ==
    IndexWritten =>
        LET entry == fs[IndexPath]
            names == HeaderNames(text)
        IN  /\ Len(config.tools) = Len(names)
            /\ Len(entry.imports) = Len(names)
            /\ Len(entry.listTools) = Len(names)
            /\ Len(entry.callTool) = Len(names)
            /\ \A i \in DOMAIN names :
                  /\ config.tools[i].name = names[i]
                  /\ entry.imports[i].fn = names[i]
                  /\ entry.listTools[i].name = names[i]
                  /\ entry.listTools[i].description = config.tools[i].description
                  /\ entry.callTool[i].label = names[i]
                  /\ entry.callTool[i].callee = names[i]

\* two tool blocks, ping before echo_tool: the entry point keeps that order
C14_Witness ==
    /\ IndexWritten
    /\ HeaderNames(text) = <<"ping", "echo_tool">>
    /\ fs[IndexPath].imports[1].fn = "ping"
    /\ fs[IndexPath].listTools[2].name = "echo_tool"
    /\ fs[IndexPath].callTool[1].label = "ping"
    /\ fs[IndexPath].callTool[2].label = "echo_tool"

\* the stub paths of the model's tools, in model order
StubPathsOf(cfg) ==
    [i \in DOMAIN cfg.tools |-> "out/src/tools/" \o cfg.tools[i].name \o ".ts"]

\* the set of the files the invocation has written
WrittenSet == {written[i] : i \in DOMAIN written}

\* generateMCPServer has returned to its caller
GenerateReturned == report # NotReturned

(***************************************************************************)
(* C15 as stated: generate returns a report whose file list is exactly the *)
(* set of the files the invocation wrote.                                  *)
(***************************************************************************)
C15_ReportListsWrittenFiles ==
    GenerateReturned =>
        /\ "files" \in DOMAIN report
        /\ report.files = WrittenSet

(***************************************************************************)
(* C15 amended: generate returns nothing.  When generateMCPServer returns  *)
(* it has written the manifest, the entry point and one stub per tool, in  *)
(* that order, its return value is undefined, and what it tells its caller *)
(* is two lines on standard output: one with the server's name and the     *)
(* output directory, one with the tools' names in model order.  No line    *)
(* before or after them lists a file.  generateTSConfig then writes the    *)
(* build configuration and returns nothing either.                         *)
(***************************************************************************)
C15_ReturnsNothingLogsTools ==
    LET generated == {i \in DOMAIN stdout : stdout[i].line = "Generated MCP server"}
    IN  /\ ~GenerateReturned => generated = {}
        /\ GenerateReturned =>
              /\ report = Undefined
              /\ SubSeq(written, 1, 2 + Len(config.tools)) =
                     <<"out/package.json", "out/src/index.ts">> \o StubPathsOf(config)
              /\ pc = "done" =>
                     written = <<"out/package.json", "out/src/index.ts">>
                                   \o StubPathsOf(config) \o <<"out/tsconfig.json">>
              /\ Cardinality(generated) = 1
              /\ \A i \in generated :
                    /\ stdout[i] = [line |-> "Generated MCP server",
                                    name |-> config.name, dir |-> "out"]
                    /\ i + 1 \in DOMAIN stdout
                    /\ stdout[i + 1] =
                           [line |-> "Tools:",
                            names |-> [k \in DOMAIN config.tools |-> config.tools[k].name]]
              /\ \A i \in DOMAIN stdout :
                    /\ "files" \notin DOMAIN stdout[i]
                    /\ "names" \in DOMAIN stdout[i] =>
                          \A k \in DOMAIN stdout[i].names :
                              stdout[i].names[k] \notin WrittenSet

\* a generation of two tools that has returned: five files written, none reported
C15_Witness ==
    /\ pc = "done"
    /\ report = Undefined
    /\ Len(config.tools) = 2
    /\ Cardinality(WrittenSet) = 5
    /\ \E i \in DOMAIN stdout :
          stdout[i] = [line |-> "Tools:", names |-> <<"echo_tool", "list_dir">>]

(***************************************************************************)
(* C16: generate creates the output directory when it does not exist.  A   *)
(* generation never fails because a directory it writes into is missing,   *)
(* and at its end the output directory, src/ and src/tools/ exist and hold *)
(* the manifest and the build configuration, the entry point, and the      *)
(* stubs.                                                                  *)
(***************************************************************************)
C16_OutputDirCreated ==
    /\ pc = "failed" => error.code # "ENOENT" \/ error.syscall # "open" \/ ~Parsed
    /\ pc = "done" =>
          /\ {"out", "out/src", "out/src/tools"} \subseteq dirs
          /\ {"out/package.json", "out/tsconfig.json", "out/src/index.ts"}
                 \subseteq DOMAIN fs
          /\ \A i \in DOMAIN config.tools :
                "out/src/tools/" \o config.tools[i].name \o ".ts" \in DOMAIN fs

\* every artifact of the model, in the order the invocation writes them
ArtifactsOf(cfg) ==
    <<"out/package.json", "out/src/index.ts">> \o StubPathsOf(cfg) \o <<"out/tsconfig.json">>

(***************************************************************************)
(* C17: an invocation ends with exit code 0 exactly when parsing and every *)
(* file write succeeded, and with a non-zero code after any parse or write *)
(* failure.  Until it has ended it always has a next step; once an fs call *)
(* has thrown it has ended.                                                *)
(***************************************************************************)
C17_ExitCodeZeroIffSuccess ==
    /\ ~Exited => ENABLED Next
    /\ error # NoError => Exited /\ ExitCode # 0
    /\ Exited =>
          (ExitCode = 0 <=> /\ Parsed
                            /\ error = NoError
                            /\ written = ArtifactsOf(config)
                            /\ \A i \in DOMAIN written : written[i] \in DOMAIN fs)

\* an invocation that parsed, wrote the manifest and the entry point, and then
\* had a write refused
C17_Witness ==
    /\ pc = "failed"
    /\ Parsed
    /\ written = <<"out/package.json", "out/src/index.ts">>
    /\ error = [syscall |-> "open", code |-> "EACCES"]
    /\ ExitCode = 1

\* the failure kinds of the claim
FailureKinds == {"MalformedSpecification", "DuplicateToolName", "OutputWriteError"}

\* the failure kinds a line of the error stream names
KindsNamed(l) ==
    {k \in FailureKinds :
        \/ l.line = k
        \/ "error" \in DOMAIN l /\ (l.error.code = k \/ l.error.syscall = k)}

\* the failure kinds the invocation has reported on the error stream
KindsReported == UNION {KindsNamed(Stderr[i]) : i \in DOMAIN Stderr}

(***************************************************************************)
(* C18: every failed invocation reports exactly one failure kind out of    *)
(* MalformedSpecification, DuplicateToolName and OutputWriteError, and the *)
(* kind matches the cause: OutputWriteError for a failed file write,       *)
(* MalformedSpecification for a text without its configuration block,      *)
(* DuplicateToolName for a text with a repeated tool name.                 *)
(***************************************************************************)
C18_FailureKindReported ==
    /\ pc = "failed" =>
          /\ Cardinality(KindsReported) = 1
          /\ (Parsed /\ error.syscall \in {"open", "mkdir"}) =>
                 KindsReported = {"OutputWriteError"}
    /\ (Exited /\ pc # "usage" /\ error.syscall = "") =>
          /\ IdxOf(text, "MCP_SERVER_CONFIGURATION:") = {} =>
                 pc = "failed" /\ KindsReported = {"MalformedSpecification"}
          /\ (IdxOf(text, "MCP_SERVER_CONFIGURATION:") # {} /\ HasDuplicateToolNames(text)) =>
                 pc = "failed" /\ KindsReported = {"DuplicateToolName"}

\* position k of the invocation's artifact order holds, on disk, the complete
\* content generated for it
CompleteOnDisk(k) ==
    LET p == ArtifactsOf(config)[k]
        n == Len(config.tools)
    IN  /\ p \in DOMAIN fs
        /\ "truncated" \notin DOMAIN fs[p]
        /\ k = 1 => fs[p].name = config.name /\ fs[p].version = config.version
        /\ k = 2 => /\ Len(fs[p].imports) = n
                    /\ Len(fs[p].listTools) = n
                    /\ Len(fs[p].callTool) = n
        /\ (2 < k /\ k <= 2 + n) =>
               /\ fs[p].function = config.tools[k - 2].name
               /\ fs[p].docComment.description = config.tools[k - 2].description
               /\ Len(fs[p].result) = Len(config.tools[k - 2].returns)
        /\ k = 3 + n => fs[p].include = <<"src/**/*">>

\* position k of the invocation's artifact order has not been touched
NotWritten(k) ==
    LET p == ArtifactsOf(config)[k]
    IN  IF p \in DOMAIN fsBefore
        THEN p \in DOMAIN fs /\ fs[p] = fsBefore[p]
        ELSE p \notin DOMAIN fs

(***************************************************************************)
(* C19: the compiler halts at the first failed write, without rollback.    *)
(* The artifacts are written in the order manifest, entry point, stubs in  *)
(* model order, build configuration.  When the write of one artifact has   *)
(* failed, every artifact before it in that order is on disk with its      *)
(* complete content, no artifact after it has been written, and the        *)
(* invocation has ended in failure.                                        *)
(***************************************************************************)
C19_HaltsAtFirstFailedWrite ==
    Parsed =>
        /\ Len(written) <= Len(ArtifactsOf(config))
        /\ \A k \in DOMAIN written : written[k] = ArtifactsOf(config)[k]
        /\ (pc = "failed" /\ error.syscall = "open") =>
              /\ \A k \in DOMAIN written : CompleteOnDisk(k)
              /\ \A k \in DOMAIN ArtifactsOf(config) :
                    k > Len(written) + 1 => NotWritten(k)
              /\ Exited /\ ExitCode # 0

\* the stubs the current invocation has written
StubsWritten == {p \in WrittenSet : \E i \in DOMAIN config.tools :
                                       p = "out/src/tools/" \o config.tools[i].name \o ".ts"}

(***************************************************************************)
(* C20: whatever implementation hint the parser produced (any non-empty    *)
(* text without a double quote, line breaks and comment terminators        *)
(* included), the hint's text is in the generated stub only inside         *)
(* comments: no piece of it is code of the stub, neither at module level   *)
(* nor in the stub's function.                                             *)
(***************************************************************************)
C20_HintOnlyInComments ==
    \A p \in StubsWritten :
        "truncated" \notin DOMAIN fs[p] =>
            /\ HintAsCode(fs[p]).moduleLevel = <<>>
            /\ HintAsCode(fs[p]).inFunction = <<>>

(***************************************************************************)
(* What the claims say about the generators taken one by one.              *)
(***************************************************************************)
\* the files after the stubs of `tools` are written over `files`, first tool
\* first
RECURSIVE StubsOver(_, _)
StubsOver(files, tools) ==
    IF tools = <<>> THEN files
    ELSE StubsOver(WriteFile(files, "out/src/tools/" \o Head(tools).name \o ".ts",
                             ToolCode(Head(tools))),
                   Tail(tools))

\* the files the order of generateMCPServer and the command-line interface
\* leaves: manifest, entry point, stubs, build configuration
FilesInCodeOrder(cfg, before) ==
    WriteFile(
        StubsOver(
            WriteFile(WriteFile(before, "out/package.json", PackageJson(cfg)),
                      "out/src/index.ts", ServerTypeScript(cfg)),
            cfg.tools),
        "out/tsconfig.json", TSConfig)

(***************************************************************************)
(* C21: artifact generation is order-insensitive.  With the output         *)
(* directory in place, the four generators called in any order all run:    *)
(* none is held up or fails for want of a file or directory another one    *)
(* creates.  At the end the files are those the code's own order leaves,   *)
(* with the same contents, and the three directories exist.                *)
(***************************************************************************)
C21_AnyOrderSameFiles ==
    /\ pc = "package" => ENABLED generatePackageJson
    /\ pc = "srcdir" => ENABLED EnsureSrcDir
    /\ pc = "index" => ENABLED generateServerTypeScript
    /\ pc = "toolsdir" => ENABLED EnsureToolsDir
    /\ pc = "tools" => ENABLED generateToolImplementations
    /\ pc = "tsconfig" => ENABLED generateTSConfig
    /\ pc = "failed" => error.code # "ENOENT"
    /\ pc = "done" =>
          /\ fs = FilesInCodeOrder(config, fsBefore)
          /\ {"out", "out/src", "out/src/tools"} \subseteq dirs
          /\ Len(written) = 3 + Len(config.tools)

\* the reverse of the code's order, on two tools, run to the end
C21_Witness ==
    /\ pc = "done"
    /\ order = <<>>
    /\ Len(config.tools) = 2
    /\ written[1] = "out/tsconfig.json"
    /\ written[2] = "out/src/tools/" \o config.tools[1].name \o ".ts"
    /\ written[4] = "out/src/index.ts"
    /\ written[5] = "out/package.json"

(***************************************************************************)
(* C22: every parameter and every return field of a model the parser has   *)
(* returned has a kind in the closed set of the four primitive kinds; no   *)
(* list line brings another kind into the model.                           *)
(***************************************************************************)
C22_KindsClosed ==
    Parsed =>
        \A i \in DOMAIN config.tools :
            /\ \A p \in DOMAIN config.tools[i].parameters :
                  config.tools[i].parameters[p].type \in PrimitiveKinds
            /\ \A r \in DOMAIN config.tools[i].returns :
                  config.tools[i].returns[r].type \in PrimitiveKinds

\* the parameter lines of the claim's shape: the flag is required or optional
ClaimedParamLines(t, i) ==
    {j \in SectionLines(t, i, "PARAMETERS:", "RETURNS:", "paramLine") :
        t[j].f \in {"required", "optional"}}

(***************************************************************************)
(* C23: the parameter list of a tool is exactly the list lines of its      *)
(* PARAMETERS sub-section that have the shape                              *)
(*   - <name>: <kind> (<required|optional>) "<description>"                *)
(* in source order, with required true exactly when the flag is required.  *)
(* Every other line of the sub-section, a line whose flag is neither       *)
(* required nor optional included, gives no parameter and no error.        *)
(***************************************************************************)
C23_ParametersExactlyShapedLines ==
    Parsed =>
        \A m \in DOMAIN config.tools :
            LET i == NthHdr(text, m)
                lines == ClaimedParamLines(text, i)
                parameters == config.tools[m].parameters
            IN  /\ Len(parameters) = Cardinality(lines)
                /\ \A k \in DOMAIN parameters :
                      LET j == Nth(lines, k)
                      IN  /\ parameters[k].name = text[j].n
                          /\ parameters[k].type = text[j].t
                          /\ parameters[k].description = text[j].d
                          /\ parameters[k].required = (text[j].f = "required")

(***************************************************************************)
(* C24: the manifest's name and version are the model's name and version,  *)
(* and its dependencies and its script entries build, start and dev are    *)
(* the same whatever the model.                                            *)
(***************************************************************************)
C24_ManifestFromMetadata ==
    (Len(written) >= 1 /\ written[1] = "out/package.json"
        /\ "truncated" \notin DOMAIN fs["out/package.json"]) =>
        LET manifest == fs["out/package.json"]
        IN  /\ manifest.name = config.name
            /\ manifest.version = config.version
            /\ manifest.dependencies = {<<"@modelcontextprotocol/sdk", "^0.4.0">>}
            /\ manifest.devDependencies =
                   {<<"@types/node", "^18.0.0">>, <<"typescript", "^5.0.0">>}
            /\ manifest.scripts =
                   [build |-> "tsc", start |-> "node dist/index.js", dev |-> "tsc --watch"]

\* a manifest written from metadata that are not the defaults, for a model
\* with tools
C24_Witness ==
    /\ pc = "done"
    /\ config.name = "echo-server"
    /\ config.version = "1.2.0"
    /\ Len(config.tools) = 2
    /\ fs["out/package.json"].name = "echo-server"
    /\ fs["out/package.json"].version = "1.2.0"
    /\ fs["out/package.json"].scripts.start = "node dist/index.js"

(***************************************************************************)
(* C25: invocations on the same output directory that run one after the    *)
(* other.  When the last of them has completed, the manifest, the build    *)
(* configuration and the entry point are exactly those generated from its  *)
(* model, whatever the invocations before it wrote or left half-written,   *)
(* and every tool the entry point imports has a stub file generated from   *)
(* that model.                                                             *)
(***************************************************************************)
C25_LastInvocationWins ==
    pc = "done" =>
        /\ fs["out/package.json"] = PackageJson(config)
        /\ fs["out/tsconfig.json"] = TSConfig
        /\ fs["out/src/index.ts"] = ServerTypeScript(config)
        /\ \A i \in DOMAIN fs["out/src/index.ts"].imports :
              LET fn == fs["out/src/index.ts"].imports[i].fn
                  stub == "out/src/tools/" \o fn \o ".ts"
              IN  /\ stub \in DOMAIN fs
                  /\ \E k \in DOMAIN config.tools :
                        /\ config.tools[k].name = fn
                        /\ fs[stub] = ToolCode(config.tools[k])

\* a second invocation that completed after a first one that completed on
\* another model
C25_Witness ==
    /\ pc = "done"
    /\ run = 2
    /\ prevGen # NoConfig
    /\ prevGen.name # config.name
    /\ prevGen.tools # config.tools
    /\ Len(config.tools) >= 1
    /\ fs["out/package.json"].name = config.name

\* positions of the items of the server configuration block of t, read as a
\* block of its own: from its header to the next tool header, to
\* GENERATION_RULES or to the end of the text
OwnConfigBlockIdx(t) ==
    LET cs == IdxOf(t, "MCP_SERVER_CONFIGURATION:")
    IN  IF cs = {} THEN {}
        ELSE {j \in DOMAIN t :
                /\ j > Min(cs)
                /\ \A k \in (Min(cs) + 1)..j :
                      t[k].k \notin {"GENERATION_RULES", "TOOL_SPECIFICATION"}}

\* the value of the field labelled `label` in that block, the field's default
\* when the block has no such field
OwnFieldOrDefault(t, label, default) ==
    LET own == {j \in OwnConfigBlockIdx(t) : t[j].k = label}
    IN  IF own = {} THEN default ELSE t[Min(own)].d

\* a text with exactly one server configuration block
OneConfigBlock(t) == Cardinality(IdxOf(t, "MCP_SERVER_CONFIGURATION:")) = 1

(***************************************************************************)
(* C26: in a text with exactly one server configuration block, the parsed  *)
(* name, version and transport are those of the fields of that block, or   *)
(* the defaults of the fields it lacks; a NAME, VERSION or TRANSPORT label *)
(* in a tool block before or after the configuration block changes none of *)
(* them.                                                                   *)
(***************************************************************************)
C26_MetadataOnlyFromConfigBlock ==
    (Parsed /\ OneConfigBlock(text)) =>
        /\ config.name = OwnFieldOrDefault(text, "NAME:", "generated-mcp-server")
        /\ config.version = OwnFieldOrDefault(text, "VERSION:", "0.1.0")
        /\ config.transport = OwnFieldOrDefault(text, "TRANSPORT:", "stdio")

\* the invocation has not got past parsing: it is at the argument check or at
\* parseCNLFile, or it has exited on the usage error or on a failed read
BeforeGeneration ==
    \/ pc \in {"args", "parse", "usage"}
    \/ pc = "failed" /\ ~Parsed

(***************************************************************************)
(* C27: as long as a compiler invocation has not parsed its specification, *)
(* and when it exits on missing arguments or on a read that failed, the    *)
(* directories and the files are those it found when it started: no        *)
(* directory has been created and no file written.                         *)
(***************************************************************************)
C27_NoMutationBeforeParse ==
    BeforeGeneration =>
        /\ dirs = dirsBefore
        /\ fs = fsBefore
        /\ written = <<>>

\* an invocation whose read failed, the output directory not existing
C27_Witness ==
    /\ pc = "failed"
    /\ ~Parsed
    /\ error.syscall = "open"
    /\ OutDir \notin dirs
    /\ fs = NoFiles

\* the transports a model is given in place of its own
Transports == {"stdio", "http", "sse"}

\* the model cfg with transport tr
WithTransport(cfg, tr) == [cfg EXCEPT !.transport = tr]

(***************************************************************************)
(* C28: the model's transport has no part in generation.  When a           *)
(* generation has finished, the files are exactly those the same model     *)
(* with any other transport leaves over the same directory, and the entry  *)
(* point connects over the standard input/output transport and says so in  *)
(* the line it logs when it runs.                                          *)
(***************************************************************************)
C28_TransportIgnored ==
    pc = "done" =>
        /\ \A tr \in Transports :
              fs = FilesInCodeOrder(WithTransport(config, tr), fsBefore)
        /\ fs["out/src/index.ts"].transport = "StdioServerTransport"
        /\ fs["out/src/index.ts"].runLog = config.name \o " MCP server running on stdio"

\* a finished generation from a model whose transport is not stdio
C28_Witness ==
    /\ pc = "done"
    /\ config.transport = "http"
    /\ Len(config.tools) >= 1
    /\ fs["out/src/index.ts"].transport = "StdioServerTransport"
    /\ fs["out/package.json"] = PackageJson(WithTransport(config, "stdio"))

\* the files a generation from the model cfg may write: the manifest, the
\* build configuration, the entry point and the stubs of cfg's tools
TargetsOf(cfg) ==
    {"out/package.json", "out/tsconfig.json", "out/src/index.ts"}
        \cup {"out/src/tools/" \o cfg.tools[i].name \o ".ts" : i \in DOMAIN cfg.tools}

\* the stubs the invocation before wrote for tools the current model has not
StaleStubs ==
    IF prevGen = NoConfig \/ ~Parsed THEN {}
    ELSE {"out/src/tools/" \o prevGen.tools[i].name \o ".ts" : i \in DOMAIN prevGen.tools}
             \ TargetsOf(config)

(***************************************************************************)
(* C29: at every point of an invocation, finished, failed or under way,    *)
(* every file and directory that was there when it started is still there, *)
(* every file other than the manifest, the build configuration, the entry  *)
(* point and the stubs of the current model's tools has the content it     *)
(* had, and no file other than those four kinds has appeared.  Stubs an    *)
(* earlier run wrote for tools the model no longer declares are among the  *)
(* files left as they were.                                                *)
(***************************************************************************)
C29_OnlyArtifactsChange ==
    LET targets == IF Parsed THEN TargetsOf(config) ELSE {}
    IN  /\ dirsBefore \subseteq dirs
        /\ DOMAIN fsBefore \subseteq DOMAIN fs
        /\ DOMAIN fs \ DOMAIN fsBefore \subseteq targets
        /\ \A p \in DOMAIN fsBefore \ targets : fs[p] = fsBefore[p]

\* a second invocation that has finished on a model without a tool the first
\* one generated, in a directory that also holds a file of the user's
C29_Witness ==
    /\ pc = "done"
    /\ run = 2
    /\ StaleStubs # {}
    /\ \A p \in StaleStubs : p \in DOMAIN fs /\ fs[p] = fsBefore[p]
    /\ "out/README.md" \in DOMAIN fs
    /\ fs["out/package.json"] # fsBefore["out/package.json"]

\* the patterns that match the command, by their place in the list
Matching == {k \in DOMAIN patterns : Match(k, command) # Null}

\* the pattern parseCommand has logged as matched, 0 when it logged none
LoggedPattern ==
    LET ks == {k \in DOMAIN patterns :
                 \E i \in DOMAIN stdout :
                    stdout[i] = Line("Matched pattern: " \o patterns[k])}
    IN  IF ks = {} THEN 0 ELSE Min(ks)

\* processCommand has logged the execution of a call
ExecutedACall ==
    \E i \in DOMAIN stdout :
       \E server \in {"turtle-window-control", "turtle-terminal-control"} :
          \E tool \in {"window_launcher", "window_controller", "monitor_detector",
                       "workspace_organizer", "terminal_observer",
                       "terminal_commander"} :
             stdout[i] = Line("Executing MCP call to " \o server \o "." \o tool)

(***************************************************************************)
(* C30: once parseCommand has returned, the call it returned is the one    *)
(* the handler of the first pattern, in registration order, that matches   *)
(* the command builds; the generic open/launch/start pattern, registered   *)
(* last, is the one used only when none of the patterns before it matches. *)
(* When no pattern matches, parseCommand returns null and processCommand   *)
(* returns its error result and executes no call.                          *)
(***************************************************************************)
C30_FirstMatchDispatch ==
    pc \in {"parsed", "returned"} =>
        /\ Matching # {} =>
              /\ toolCall = Handler(Min(Matching), Match(Min(Matching), command))
              /\ LoggedPattern = Min(Matching)
        /\ LoggedPattern = Len(patterns) => Matching = {Len(patterns)}
        /\ Matching = {} =>
              /\ toolCall = Null
              /\ LoggedPattern = 0
              /\ ~ExecutedACall
              /\ pc = "returned" =>
                    result = [error |-> "Could not parse command into MCP tool call"]

\* a command the first and the last pattern both match, dispatched to the
\* first, and executed
C30_Witness ==
    /\ pc = "returned"
    /\ {1, 7} \subseteq Matching
    /\ toolCall.tool = "window_launcher"
    /\ toolCall.parameters = [application |-> "slack", position |-> "left", monitor |-> 1]
    /\ result # NotReturned
    /\ "success" \in DOMAIN result

====
